---- MODULE Spec2Model ----
(***************************************************************************)
(* AtemConnectionManager (src/unnamed/part_000, lines 1-406): the          *)
(* connection pool of the Stream Deck ATEM plugin.                         *)
(*                                                                         *)
(* The manager runs on the Node.js event loop.  A task of the event loop   *)
(* (an API call of the host, a timer expiry, an event emitted by a driver) *)
(* runs to completion, and the promise continuations it queued (the        *)
(* microtask queue mq) run, in order, before the next task starts: every   *)
(* action below is one task together with the continuations it releases    *)
(* (Drain).                                                                *)
(*                                                                         *)
(* The driver (atem-connection's Atem) is opaque: once created it may emit *)
(* 'connected', 'disconnected' and 'error' at any time.  Timers carry no   *)
(* clock: a pending timer may expire at any later task.  The host is taken *)
(* to listen to every pool-level event the manager emits.                  *)
(***************************************************************************)
EXTENDS Integers, Sequences, FiniteSets, TLC

\* maxRetries of the source is 10 (src/unnamed/part_000:30); the model scales it.
maxRetries == 4
MaxCalls == 2       \* getConnection calls ever issued
MaxUnsolicited == 2 \* driver events that answer no connect call or start a reconnection
MaxStale == 1       \* once-listeners of ended iterations counted per driver (saturating)
MaxCallbacks == 2                 \* callbacks the host registers
MaxMixEffects == 2                \* mix effects a device reports
MaxRateLen == 3                   \* characters of a settings.rate string

AllAddrs == {"a1", "a2"}
Addrs == {"a1"}
Calls == 1..MaxCalls
\* createConnection creates at most one connection object per call; a loop is started
\* by a call or by an attemptReconnect that got past the guard
Conns == 1..MaxCalls
Loops == 1..(MaxCalls + MaxUnsolicited)

NULL == 0
\* connectionPromise still holding the promise of a connectWithRetry call that resolved
SETTLED == -1
\* owner of a loop started by attemptReconnect
RECONNECT == 0

VARIABLES
    connections,  \* part_000:28  Map<string, AtemConnection>: ip -> connection object (NULL: no entry)
    conn,         \* part_000:7-13 the AtemConnection objects, with their driver's listener lists
    loop,         \* the running connectWithRetry invocations (part_000:99-150)
    call,         \* the getConnection calls (part_000:40-92)
    emitted,      \* the last step: the task that ran, then what it emitted and called, in order
    hist,         \* history of each address, for the statements below
    stateListeners, \* part_000:29 Map<string, StateChangeListener[]>: ip -> callbacks, in order
    listenerKeys,   \* part_000:29 the addresses for which the stateListeners Map holds a list
    registeredAs,   \* the listenerId each callback of stateListeners[ip] was registered with
    counting,       \* history: whether the atem.connect calls of each invocation are counted
    returned,       \* << v >>: the query method called in the last step returned v (<< >>: no query)
    instances,      \* the instances of the AtemSetProgramInput action, by action id
    keyDown,        \* the key press of the AtemTransitionRate action: its settings.rate and locals
    unsolicited   \* driver events so far that answered no connect call or started a reconnection

vars == <<connections, conn, loop, call, emitted, hist, stateListeners, listenerKeys,
          registeredAs, counting, returned, instances, keyDown,
          unsolicited>>

Min(a, b) == IF a < b THEN a ELSE b

\* The one element of a singleton set.  An operator below that takes the state record
\* binds it with Val({... : s \in {st}}): TLC passes operator arguments by name, and the
\* binding makes it evaluate the argument once.
Val(S) == CHOOSE x \in S : TRUE

\* part_000:69-76 a connection object as createConnection builds it (used = FALSE: not yet created)
FreshConn(ip) ==
    [used |-> TRUE, ip |-> ip, isConnected |-> FALSE, connectionPromise |-> NULL,
     retryCount |-> 0,
     cooldown |-> 0,           \* pending delay(retryDelay * 2) timers of attemptReconnect
     staleConnected |-> 0,     \* once("connected") listeners of ended iterations still attached
     owed |-> FALSE,           \* driver: atem.connect was called and no 'connected' emitted since
     lastEvConnected |-> FALSE]\* history: the driver's last lifecycle event was 'connected'

NoConn == [FreshConn("a1") EXCEPT !.used = FALSE]
\* connects: the atem.connect calls the invocation has made, while they are counted (up
\* to maxRetries + 1)
FreeLoop == [pc |-> "free", c |-> 0, owner |-> 0, waiters |-> << >>, connects |-> 0]
NoCall == [pc |-> "idle", ip |-> "a1", c |-> 0, l |-> 0, atem |-> 0]
\* History of an address.  clean: the address was never released and each event of its
\* driver answered a connect call (it arrived while an iteration waited for it, and it was
\* not 'disconnected').  connects, retryLog and nConnFailed count atem.connect calls,
\* 'retry' events (their attempt numbers) and 'connectionFailed' events while clean.
NoHist == [clean |-> TRUE, connects |-> 0, retryLog |-> << >>, nConnFailed |-> 0]
Dirty(st, ip) ==
    Val({(
        [s EXCEPT !.hist[ip] = [NoHist EXCEPT !.clean = FALSE]]
    ) : s \in {st}})

\* The state as one record, for the operators that compose the handlers' statements;
\* emitted starts with the task that runs (its name, address and argument).
\* ret: the value the last called function returned; passed: attemptReconnect got past
\* its guard in this step; ovf: a bound of the model was hit.
Cur(task, ip, n) ==
    [connections |-> connections, conn |-> conn, loop |-> loop, call |-> call, mq |-> << >>,
     emitted |-> << [name |-> task, ip |-> ip, n |-> n] >>, hist |-> hist,
     stateListeners |-> stateListeners, listenerKeys |-> listenerKeys,
     registeredAs |-> registeredAs, counting |-> counting, returned |-> << >>,
     instances |-> instances, keyDown |-> keyDown,
     unsolicited |-> unsolicited, passed |-> FALSE, ret |-> 0, ovf |-> FALSE]

\* part_001:60-71 onKeyDown after `await atemConnectionManager.getConnection(...)`: with
\* the driver it calls setMixTransitionSettings({ rate }, mixEffect); when getConnection
\* threw it shows the alert
KeyDownResume(st) ==
    Val({(
        LET k == s.keyDown
            settled(name) ==
                \E j \in 2..Len(s.emitted) :
                    s.emitted[j] = [name |-> name, ip |-> s.call[k.call].ip, n |-> k.call]
        IN  IF k.call = 0 THEN k
            ELSE IF settled("return") THEN [k EXCEPT !.call = 0, !.passed = << k.rate >>]
            ELSE IF settled("throw") THEN [k EXCEPT !.call = 0, !.alert = TRUE]
            ELSE k
    ) : s \in {st}})

Commit(s) ==
    /\ ~s.ovf
    /\ connections' = s.connections
    /\ conn' = s.conn
    /\ loop' = s.loop
    /\ call' = s.call
    /\ unsolicited' = s.unsolicited
    /\ emitted' = s.emitted
    /\ hist' = s.hist
    /\ stateListeners' = s.stateListeners
    /\ listenerKeys' = s.listenerKeys
    /\ registeredAs' = s.registeredAs
    /\ returned' = s.returned
    /\ instances' = s.instances
    /\ keyDown' = KeyDownResume(s)
    /\ counting' = counting

\* this.emit(name, ip, ...), and the calls of the driver's methods (atem.connect,
\* atem.disconnect), logged in the order they happen within the step
Emit(st, name, ip, n) ==
    Val({(
        LET s1 == [s EXCEPT !.emitted = Append(@, [name |-> name, ip |-> ip, n |-> n])]
        IN  IF ~s.hist[ip].clean THEN s1
            ELSE CASE name = "retry" -> [s1 EXCEPT !.hist[ip].retryLog = Append(@, n)]
                   [] name = "connectionFailed" -> [s1 EXCEPT !.hist[ip].nConnFailed = @ + 1]
                   [] name = "atem.connect" -> [s1 EXCEPT !.hist[ip].connects = @ + 1]
                   [] OTHER -> s1
    ) : s \in {st}})

Push(st, k, id, out) ==
    Val({(
        [s EXCEPT !.mq = Append(@, [k |-> k, id |-> id, out |-> out])]
    ) : s \in {st}})

FreeLoops(s) == {l \in Loops : s.loop[l].pc = "free"}
RacingOn(s, c) == {l \in Loops : s.loop[l].pc = "race" /\ s.loop[l].c = c}

\* part_000:106-129 the executor of connectPromise: arm the timeout, attach the two
\* once-listeners, call atem.connect(ip)
StartIteration(st, l) ==
    Val({(
        LET c == s.loop[l].c
        IN  [Emit(s, "atem.connect", s.conn[c].ip, c) EXCEPT
                !.loop[l].pc = "race",
                !.loop[l].connects = IF s.counting THEN Min(@ + 1, maxRetries + 1) ELSE @,
                !.conn[c].owed = TRUE]
    ) : s \in {st}})

\* part_000:103 the loop guard
RetryExhausted(rc) == rc >= maxRetries

\* part_000:99-131 connectWithRetry up to its first await; ret is the promise it returns
ConnectWithRetry(st, c, owner) ==
    Val({(
        IF RetryExhausted(s.conn[c].retryCount)
        THEN [s EXCEPT !.ret = SETTLED]
        ELSE IF FreeLoops(s) = {}
        THEN [s EXCEPT !.ovf = TRUE]
        ELSE LET l == CHOOSE k \in FreeLoops(s) : \A j \in FreeLoops(s) : k <= j
             IN  StartIteration(
                    [s EXCEPT !.loop[l] = [FreeLoop EXCEPT !.pc = "new", !.c = c, !.owner = owner],
                              !.ret = l], l)
    ) : s \in {st}})

\* `await p` in getConnection (kind "wait") or createConnection (kind "create") of call i
Await(st, i, kind, c, p) ==
    Val({(
        IF p = SETTLED
        THEN Push([s EXCEPT !.call[i].pc = kind \o "K", !.call[i].c = c, !.call[i].l = 0],
                  "call", i, "ok")
        ELSE [s EXCEPT !.call[i].pc = kind, !.call[i].c = c, !.call[i].l = p,
                       !.loop[p].waiters = IF kind = "wait" THEN Append(@, i) ELSE @]
    ) : s \in {st}})

\* Call i of getConnection returns the driver of connection object c, or throws.
Return(st, i, c) ==
    Val({(
        [Emit(s, "return", s.call[i].ip, i) EXCEPT
            !.call[i].pc = "resolved", !.call[i].atem = c, !.call[i].c = 0, !.call[i].l = 0]
    ) : s \in {st}})
Throw(st, i) ==
    Val({(
        [Emit(s, "throw", s.call[i].ip, i) EXCEPT
            !.call[i].pc = "failed", !.call[i].c = 0, !.call[i].l = 0]
    ) : s \in {st}})

\* A createConnection that builds a connection object on every call
CreateConnectionAlwaysNew(st, ip, i) ==
    Val({(
        LET free == {c \in Conns : ~s.conn[c].used}
            new == CHOOSE c \in free : \A d \in free : c <= d
        IN  IF free = {}
            THEN [s EXCEPT !.ovf = TRUE]
            ELSE LET s1 == [s EXCEPT !.connections[ip] = new, !.conn[new] = FreshConn(ip)]
                     s2 == ConnectWithRetry(s1, new, i)
                     s3 == [s2 EXCEPT !.conn[new].connectionPromise = s2.ret]
                 IN  IF s2.ovf THEN s2 ELSE Await(s3, i, "create", new, s3.ret)
    ) : s \in {st}})

\* part_000:65-85 createConnection up to its await
CreateConnection(st, ip, i) ==
    Val({(
        LET free == {c \in Conns : ~s.conn[c].used}
            fresh == s.connections[ip] = NULL
            new == CHOOSE c \in free : \A d \in free : c <= d
        IN  IF fresh /\ free = {}
            THEN [s EXCEPT !.ovf = TRUE]
            ELSE LET s1 == IF fresh
                           THEN [s EXCEPT !.connections[ip] = new, !.conn[new] = FreshConn(ip)]
                           ELSE s
                     c == s1.connections[ip]
                     s2 == ConnectWithRetry(s1, c, i)
                     s3 == [s2 EXCEPT !.conn[c].connectionPromise = s2.ret]
                 IN  IF s2.ovf THEN s2 ELSE Await(s3, i, "create", c, s3.ret)
    ) : s \in {st}})

\* A getConnection that never joins the attempt in progress
JoinsNever(st, ip) ==
    Val({(
        FALSE
    ) : s \in {st}})

\* part_000:49 getConnection waits for the attempt in progress
JoinsPending(st, ip) ==
    Val({(
        /\ s.connections[ip] # NULL
        /\ s.conn[s.connections[ip]].connectionPromise # NULL
    ) : s \in {st}})

\* A getConnection without the fast path
GetConnectionNoFastPath(st, ip, i) ==
    Val({(
        LET ex == s.connections[ip]
            s0 == [s EXCEPT !.call[i] = [NoCall EXCEPT !.ip = ip]]
        IN  IF JoinsPending(s, ip)
            THEN Await(s0, i, "wait", ex, s.conn[ex].connectionPromise)
            ELSE CreateConnection(s0, ip, i)
    ) : s \in {st}})

\* part_000:40-58 getConnection up to its first await
GetConnectionCall(st, ip, i) ==
    Val({(
        LET ex == s.connections[ip]
            s0 == [s EXCEPT !.call[i] = [NoCall EXCEPT !.ip = ip]]
        IN  IF ex # NULL /\ s.conn[ex].isConnected
            THEN Return(s0, i, ex)
            ELSE IF JoinsPending(s, ip)
            THEN Await(s0, i, "wait", ex, s.conn[ex].connectionPromise)
            ELSE CreateConnection(s0, ip, i)
    ) : s \in {st}})

\* A settlement that resumes only the caller that started the loop
SettleOwnerOnly(st, l, out) ==
    Val({(
        LET c == s.loop[l].c
            own == s.loop[l].owner
            e == Emit(s, IF out = "ok" THEN "resolved" ELSE "rejected", s.conn[c].ip, l)
            s1 == IF own = RECONNECT
                  THEN Push(e, "recon", c, out)
                  ELSE Push([e EXCEPT !.call[own].pc = "createK"], "call", own, out)
        IN  [s1 EXCEPT !.loop[l] = FreeLoop,
                       !.conn[c].connectionPromise = IF @ = l THEN SETTLED ELSE @]
    ) : s \in {st}})

\* The promise of loop l settles: its awaiters continue in the order they started waiting
\* (the caller that started it first), and the loop ends.  The step records how the
\* promise settled ("resolved" or "rejected", with the loop).
Settle(st, l, out) ==
    Val({(
        LET c == s.loop[l].c
            own == s.loop[l].owner
            ws == s.loop[l].waiters
            e == Emit(s, IF out = "ok" THEN "resolved" ELSE "rejected", s.conn[c].ip, l)
            s1 == IF own = RECONNECT
                  THEN Push(e, "recon", c, out)
                  ELSE Push([e EXCEPT !.call[own].pc = "createK"], "call", own, out)
            s2 == [s1 EXCEPT
                     !.mq = @ \o [k \in 1..Len(ws) |-> [k |-> "call", id |-> ws[k], out |-> out]],
                     !.call = [i \in Calls |->
                                 IF \E k \in 1..Len(ws) : ws[k] = i
                                 THEN [s1.call[i] EXCEPT !.pc = "waitK"]
                                 ELSE s1.call[i]]]
        IN  [s2 EXCEPT !.loop[l] = FreeLoop,
                       !.conn[c].connectionPromise = IF @ = l THEN SETTLED ELSE @]
    ) : s \in {st}})

\* A catch block that gives up one failure late
IterationFailedLate(st, l) ==
    Val({(
        LET c == s.loop[l].c
            ip == s.conn[c].ip
            s1 == [s EXCEPT !.conn[c].retryCount = @ + 1]
            s2 == Emit(s1, "retry", ip, s1.conn[c].retryCount)
        IN  IF s2.conn[c].retryCount > maxRetries
            THEN Settle(Emit([s2 EXCEPT !.conn[c].isConnected = FALSE,
                                        !.conn[c].connectionPromise = NULL],
                             "connectionFailed", ip, 0), l, "err")
            ELSE [s2 EXCEPT !.loop[l].pc = "delay"]
    ) : s \in {st}})

\* A catch block that announces the retry before it counts it
IterationFailedEarlyEmit(st, l) ==
    Val({(
        LET c == s.loop[l].c
            ip == s.conn[c].ip
            s1 == Emit(s, "retry", ip, s.conn[c].retryCount)
            s2 == [s1 EXCEPT !.conn[c].retryCount = @ + 1]
        IN  IF s2.conn[c].retryCount >= maxRetries
            THEN Settle(Emit([s2 EXCEPT !.conn[c].isConnected = FALSE,
                                        !.conn[c].connectionPromise = NULL],
                             "connectionFailed", ip, 0), l, "err")
            ELSE [s2 EXCEPT !.loop[l].pc = "delay"]
    ) : s \in {st}})

\* A catch block that starts the next iteration without waiting
IterationFailedNoWait(st, l) ==
    Val({(
        LET c == s.loop[l].c
            ip == s.conn[c].ip
            s1 == [s EXCEPT !.conn[c].retryCount = @ + 1]
            s2 == Emit(s1, "retry", ip, s1.conn[c].retryCount)
        IN  IF s2.conn[c].retryCount >= maxRetries
            THEN Settle(Emit([s2 EXCEPT !.conn[c].isConnected = FALSE,
                                        !.conn[c].connectionPromise = NULL],
                             "connectionFailed", ip, 0), l, "err")
            ELSE StartIteration(s2, l)
    ) : s \in {st}})

\* part_000:134-148 the catch block of connectWithRetry
IterationFailed(st, l) ==
    Val({(
        LET c == s.loop[l].c
            ip == s.conn[c].ip
            s1 == [s EXCEPT !.conn[c].retryCount = @ + 1]
            s2 == Emit(s1, "retry", ip, s1.conn[c].retryCount)
        IN  IF s2.conn[c].retryCount >= maxRetries
            THEN Settle(Emit([s2 EXCEPT !.conn[c].isConnected = FALSE,
                                        !.conn[c].connectionPromise = NULL],
                             "connectionFailed", ip, 0), l, "err")
            ELSE [s2 EXCEPT !.loop[l].pc = "delay"]
    ) : s \in {st}})

\* part_000:85-91 createConnection after its await
CreateConnectionResume(st, i, out) ==
    Val({(
        LET c == s.call[i].c
        IN  IF out = "ok" /\ s.conn[c].isConnected THEN Return(s, i, c) ELSE Throw(s, i)
    ) : s \in {st}})

\* A getConnection that swallows the failure of the attempt it waited for
GetConnectionResumeSwallows(st, i, out) ==
    Val({(
        LET c == s.call[i].c
        IN  IF out = "err" \/ s.conn[c].isConnected THEN Return(s, i, c)
            ELSE CreateConnection(s, s.call[i].ip, i)
    ) : s \in {st}})

\* part_000:50-57 getConnection after its await
GetConnectionResume(st, i, out) ==
    Val({(
        LET c == s.call[i].c
        IN  IF out = "err" THEN Throw(s, i)
            ELSE IF s.conn[c].isConnected THEN Return(s, i, c)
            ELSE CreateConnection(s, s.call[i].ip, i)
    ) : s \in {st}})

\* An attemptReconnect that swallows the failure without a word
AttemptReconnectSilent(st, c, out) ==
    Val({(
        s
    ) : s \in {st}})

\* part_000:229-233 attemptReconnect after its await
AttemptReconnectResume(st, c, out) ==
    Val({(
        IF out = "err" THEN Emit(s, "reconnectFailed", s.conn[c].ip, 0) ELSE s
    ) : s \in {st}})

Microtask(st, m) ==
    Val({(
        CASE m.k = "loop" ->
                IF m.out = "ok" THEN Settle(s, m.id, "ok") ELSE IterationFailed(s, m.id)
          [] m.k = "call" ->
                IF s.call[m.id].pc = "createK"
                THEN CreateConnectionResume(s, m.id, m.out)
                ELSE GetConnectionResume(s, m.id, m.out)
          [] m.k = "recon" -> AttemptReconnectResume(s, m.id, m.out)
    ) : s \in {st}})

\* The continuations queued by a task run, first queued first, until none is left.
RECURSIVE Drain(_)
Drain(st) ==
    Val({(
        IF s.ovf \/ s.mq = << >> THEN s
        ELSE Drain(Microtask([s EXCEPT !.mq = Tail(@)], Head(s.mq)))
    ) : s \in {st}})

Task(st) == \E s \in {Drain(st)} : Commit(s)

\* The host calls getConnection(ip): the calls are numbered in the order they are issued.
GetConnection(ip) ==
    /\ \E i \in Calls :
        /\ call[i].pc = "idle"
        /\ \A j \in Calls : j < i => call[j].pc # "idle"
        /\ Task(GetConnectionCall(Cur("GetConnection", ip, i), ip, i))

\* part_000:107-109 the connectionTimeout timer of the iteration loop l waits in expires
Timeout(l) ==
    /\ loop[l].pc = "race"
    /\ LET c == loop[l].c
           s == Cur("Timeout", conn[c].ip, c)
       IN  Task(Push([s EXCEPT !.loop[l].pc = "resume",
                                   !.conn[c].staleConnected = Min(@ + 1, MaxStale)],
                       "loop", l, "err"))

\* part_000:147,103 the retryDelay timer of loop l expires: the while condition is read again
DelayElapsed(l) ==
    /\ loop[l].pc = "delay"
    /\ LET c == loop[l].c
           s == Cur("DelayElapsed", conn[c].ip, c)
       IN  Task(IF RetryExhausted(conn[c].retryCount)
                THEN Settle(s, l, "ok")
                ELSE StartIteration(s, l))

\* part_000:214-229 attemptReconnect up to its first await
AttemptReconnect(st, c) ==
    Val({(
        IF s.conn[c].connectionPromise # NULL
        THEN s
        ELSE IF s.conn[c].retryCount >= maxRetries
        THEN [s EXCEPT !.conn[c].cooldown = @ + 1, !.passed = TRUE]
        ELSE LET s1 == ConnectWithRetry([s EXCEPT !.passed = TRUE], c, RECONNECT)
             IN  [s1 EXCEPT !.conn[c].connectionPromise = s1.ret]
    ) : s \in {st}})

\* part_000:222-229 the cooldown timer of an attemptReconnect on connection object c expires
CooldownElapsed(c) ==
    /\ conn[c].used
    /\ conn[c].cooldown > 0
    /\ LET s1 == ConnectWithRetry([Cur("CooldownElapsed", conn[c].ip, c) EXCEPT
                                              !.conn[c].cooldown = @ - 1,
                                              !.conn[c].retryCount = 0], c, RECONNECT)
       IN  Task(IF s1.ovf THEN s1 ELSE [s1 EXCEPT !.conn[c].connectionPromise = s1.ret])

\* part_000:111-119 the once("connected") listeners attached to the driver of c: those of
\* ended iterations and those of the iterations waiting now
OnceConnected(st, c) ==
    Val({(
        LET live == RacingOn(s, c)
            n == s.conn[c].staleConnected + Cardinality(live)
            ip == s.conn[c].ip
            RECURSIVE emitN(_, _)
            emitN(t, k) == IF k = 0 THEN t ELSE emitN(Emit(t, "connected", ip, 0), k - 1)
            RECURSIVE resume(_, _)
            resume(t, ls) ==
                IF ls = {} THEN t
                ELSE LET l == CHOOSE k \in ls : \A j \in ls : k <= j
                     IN  resume(Push([t EXCEPT !.loop[l].pc = "resume"], "loop", l, "ok"),
                                ls \ {l})
        IN  IF n = 0 THEN s
            ELSE resume(emitN([s EXCEPT !.conn[c].isConnected = TRUE,
                                        !.conn[c].retryCount = 0,
                                        !.conn[c].staleConnected = 0], n), live)
    ) : s \in {st}})

\* part_000:121-125 the once("error") listeners attached to the driver of c when the
\* event was emitted (live: the iterations that were waiting then)
OnceError(st, c, live) ==
    Val({(
        LET RECURSIVE resume(_, _)
            resume(t, ls) ==
                IF ls = {} THEN t
                ELSE LET l == CHOOSE k \in ls : \A j \in ls : k <= j
                     IN  resume(Push([t EXCEPT !.loop[l].pc = "resume",
                                               !.conn[c].staleConnected = Min(@ + 1, MaxStale)],
                                     "loop", l, "err"), ls \ {l})
        IN  resume(s, live)
    ) : s \in {st}})

\* A 'connected' handler that marks the entry of every address connected
OnConnectedMarksEveryEntry(st, ip) ==
    Val({(
        Emit([s EXCEPT !.conn = [c \in Conns |->
                                    IF \E a \in AllAddrs : s.connections[a] = c
                                    THEN [s.conn[c] EXCEPT !.isConnected = TRUE,
                                                           !.retryCount = 0]
                                    ELSE s.conn[c]]],
             "connected", ip, 0)
    ) : s \in {st}})

\* A 'connected' handler that leaves retryCount as it is
OnConnectedKeepsRetryCount(st, ip) ==
    Val({(
        LET cur == s.connections[ip]
            s1 == IF cur # NULL
                  THEN [s EXCEPT !.conn[cur].isConnected = TRUE]
                  ELSE s
        IN  Emit(s1, "connected", ip, 0)
    ) : s \in {st}})

\* part_000:158-165 atem.on("connected") of the driver created for address ip
OnConnected(st, ip) ==
    Val({(
        LET cur == s.connections[ip]
            s1 == IF cur # NULL
                  THEN [s EXCEPT !.conn[cur].isConnected = TRUE, !.conn[cur].retryCount = 0]
                  ELSE s
        IN  Emit(s1, "connected", ip, 0)
    ) : s \in {st}})

\* A 'disconnected' handler that leaves connectionPromise as it is
OnDisconnectedKeepsPromise(st, ip) ==
    Val({(
        LET cur == s.connections[ip]
            s1 == IF cur # NULL
                  THEN [s EXCEPT !.conn[cur].isConnected = FALSE]
                  ELSE s
            s2 == Emit(s1, "disconnected", ip, 0)
        IN  IF cur # NULL THEN AttemptReconnect(s2, cur) ELSE s2
    ) : s \in {st}})

\* part_000:167-179 atem.on("disconnected")
OnDisconnected(st, ip) ==
    Val({(
        LET cur == s.connections[ip]
            s1 == IF cur # NULL
                  THEN [s EXCEPT !.conn[cur].isConnected = FALSE,
                                 !.conn[cur].connectionPromise = NULL]
                  ELSE s
            s2 == Emit(s1, "disconnected", ip, 0)
        IN  IF cur # NULL THEN AttemptReconnect(s2, cur) ELSE s2
    ) : s \in {st}})

\* part_000:181-189 atem.on("error")
OnError(st, ip) ==
    Val({(
        LET cur == s.connections[ip]
            s1 == Emit(s, "error", ip, 0)
        IN  IF cur # NULL
            THEN AttemptReconnect([s1 EXCEPT !.conn[cur].isConnected = FALSE], cur)
            ELSE s1
    ) : s \in {st}})

\* History: an event of the driver of c that no iteration waits for is unsolicited.
Answered(st, c) ==
    Val({(
        IF RacingOn(s, c) = {} THEN Dirty(s, s.conn[c].ip) ELSE s
    ) : s \in {st}})

\* The iterations waiting for an answer of the driver of c
Racing(c) == {l \in Loops : loop[l].pc = "race" /\ loop[l].c = c}

\* A driver event that arrived unsolicited, or started a reconnection, counts against
\* MaxUnsolicited.
Event(st, solicited) ==
    \E s \in {st} :
        Task(IF solicited /\ ~s.passed THEN s
             ELSE IF s.unsolicited >= MaxUnsolicited THEN [s EXCEPT !.ovf = TRUE]
             ELSE [s EXCEPT !.unsolicited = @ + 1])

\* The driver of connection object c emits 'connected': its listeners run in the order
\* they were attached (setupEventListeners first).
ConnectedEvent(c) ==
    LET s0 == [Answered(Cur("DriverConnected", conn[c].ip, c), c) EXCEPT
                  !.conn[c].lastEvConnected = TRUE, !.conn[c].owed = FALSE]
    IN  OnceConnected(OnConnected(s0, conn[c].ip), c)

DriverConnected(c) ==
    /\ conn[c].used
    /\ Event(ConnectedEvent(c), Racing(c) # {})

DriverDisconnected(c) ==
    /\ conn[c].used
    /\ LET s0 == [Dirty(Cur("DriverDisconnected", conn[c].ip, c), conn[c].ip) EXCEPT
                     !.conn[c].lastEvConnected = FALSE]
       IN  Event(OnDisconnected(s0, conn[c].ip), FALSE)

DriverError(c) ==
    /\ conn[c].used
    /\ LET s0 == [Answered(Cur("DriverError", conn[c].ip, c), c) EXCEPT
                     !.conn[c].lastEvConnected = FALSE]
       IN  Event(OnceError(OnError(s0, conn[c].ip), c, Racing(c)), Racing(c) # {})

\* A disconnect that keeps the entry in the map
DisconnectKeepsEntry(st, ip) ==
    Val({(
        LET c == s.connections[ip]
            s1 == [Dirty(s, ip) EXCEPT !.conn[c].connectionPromise = NULL]
        IN  IF c = NULL THEN s
            ELSE IF s.conn[c].isConnected THEN Emit(s1, "atem.disconnect", ip, c) ELSE s1
    ) : s \in {st}})

\* A disconnect that also forgets the callbacks registered for the address
DisconnectDropsObservers(st, ip) ==
    Val({(
        LET c == s.connections[ip]
            s1 == [Dirty(s, ip) EXCEPT !.conn[c].connectionPromise = NULL]
            s2 == IF s.conn[c].isConnected THEN Emit(s1, "atem.disconnect", ip, c) ELSE s1
        IN  IF c # NULL
            THEN [s2 EXCEPT !.connections[ip] = NULL, !.stateListeners[ip] = << >>,
                            !.registeredAs[ip] = << >>, !.listenerKeys = @ \ {ip}]
            ELSE s
    ) : s \in {st}})

\* part_000:240-249 disconnect
DisconnectCall(st, ip) ==
    Val({(
        LET c == s.connections[ip]
            s1 == [Dirty(s, ip) EXCEPT !.conn[c].connectionPromise = NULL]
            s2 == IF s.conn[c].isConnected THEN Emit(s1, "atem.disconnect", ip, c) ELSE s1
        IN  IF c # NULL THEN [s2 EXCEPT !.connections[ip] = NULL] ELSE s
    ) : s \in {st}})

\* The host calls disconnect(ip).
Disconnect(ip) ==
    /\ ip \in AllAddrs
    /\ Task(DisconnectCall(Cur("Disconnect", ip, 0), ip))

\* The orders in which Array.from(this.connections.keys()) can list the addresses that
\* have an entry (the Map lists them in the order the entries were inserted).
KeyOrders ==
    LET keys == {ip \in AllAddrs : connections[ip] # NULL}
    IN  {q \in [1..Cardinality(keys) -> keys] :
            \A j, k \in 1..Cardinality(keys) : q[j] = q[k] => j = k}

\* A disconnectAll that releases the first address only
DisconnectAllFirstOnly(st, ips) ==
    Val({(
        IF ips = << >> THEN s ELSE DisconnectCall(s, Head(ips))
    ) : s \in {st}})

\* part_000:254-259 disconnectAll: disconnect(ip) has no await, so the map callback runs
\* each call to its end, one address after the other
RECURSIVE DisconnectAllCall(_, _)
DisconnectAllCall(st, ips) ==
    Val({(
        IF ips = << >> THEN s
        ELSE DisconnectAllCall(DisconnectCall(s, Head(ips)), Tail(ips))
    ) : s \in {st}})

\* The host calls disconnectAll().
DisconnectAll ==
    \E ips \in KeyOrders :
        Task(DisconnectAllCall(Cur("DisconnectAll", "*", 0), ips))

\* part_000:274-277 isConnected
IsConnected(ip) ==
    IF connections[ip] # NULL THEN conn[connections[ip]].isConnected ELSE FALSE

\* part_000:283-294 getConnectedIPs (the addresses it lists)
GetConnectedIPs ==
    {ip \in AllAddrs : connections[ip] # NULL /\ conn[connections[ip]].isConnected}

\* The callbacks the host registers: functions, compared by identity
Callbacks == 1..MaxCallbacks
\* The listenerId arguments the host passes
ListenerIds == {"x", "y"}
\* src/src/actions/atem-auto-transition.ts:175 an action registers its callback under
\* its own action id
ActionId(cb) == IF cb = 1 THEN "x" ELSE "y"

\* listeners.findIndex(l => l.callback === callback); listeners.splice(index, 1)
Without(ls, cb) == SelectSeq(ls, LAMBDA x : x # cb)

\* listeners.findIndex(l => l.callback === callback): the first index, 0 for -1
FindIndex(ls, cb) ==
    IF \E k \in 1..Len(ls) : ls[k] = cb
    THEN CHOOSE k \in 1..Len(ls) : ls[k] = cb /\ \A j \in 1..(k - 1) : ls[j] # cb
    ELSE 0

\* listeners.splice(index, 1)
Splice(ls, index) == SubSeq(ls, 1, index - 1) \o SubSeq(ls, index + 1, Len(ls))

\* An addStateListener that pushes without looking for the callback
AddStateListenerAppends(st, listenerId, ip, cb) ==
    Val({(
        [s EXCEPT !.listenerKeys = @ \cup {ip},
                  !.stateListeners[ip] = Append(@, cb),
                  !.registeredAs[ip] = Append(@, listenerId)]
    ) : s \in {st}})

\* part_000:337-352 addStateListener (listenerId is not used; registeredAs remembers it)
AddStateListenerCall(st, listenerId, ip, cb) ==
    Val({(
        LET s1 == [s EXCEPT !.listenerKeys = @ \cup {ip}]
            existingIndex == FindIndex(s1.stateListeners[ip], cb)
            s2 == IF existingIndex # 0
                  THEN [Emit(s1, "splice", ip, cb) EXCEPT
                           !.stateListeners[ip] = Splice(@, existingIndex),
                           !.registeredAs[ip] = Splice(@, existingIndex)]
                  ELSE s1
        IN  [s2 EXCEPT !.stateListeners[ip] = Append(@, cb),
                       !.registeredAs[ip] = Append(@, listenerId)]
    ) : s \in {st}})

\* The host calls addStateListener(listenerId, ip, callback).
AddStateListener(listenerId, ip, cb) ==
    /\ ip \in AllAddrs
    /\ Task(AddStateListenerCall(Cur("AddStateListener", ip, cb), listenerId, ip, cb))

\* A removeStateListener that leaves the emptied list in the map
RemoveStateListenerKeepsList(st, listenerId, ip, cb) ==
    Val({(
        LET index == FindIndex(s.stateListeners[ip], cb)
        IN  IF ip \notin s.listenerKeys \/ index = 0 THEN s
            ELSE [Emit(s, "splice", ip, cb) EXCEPT
                     !.stateListeners[ip] = Splice(@, index),
                     !.registeredAs[ip] = Splice(@, index)]
    ) : s \in {st}})

\* part_000:359-375 removeStateListener (listenerId is not used)
RemoveStateListenerCall(st, listenerId, ip, cb) ==
    Val({(
        LET index == FindIndex(s.stateListeners[ip], cb)
            s1 == IF index # 0
                  THEN [Emit(s, "splice", ip, cb) EXCEPT
                           !.stateListeners[ip] = Splice(@, index),
                           !.registeredAs[ip] = Splice(@, index)]
                  ELSE s
        IN  IF ip \notin s.listenerKeys THEN s
            ELSE IF Len(s1.stateListeners[ip]) = 0
            THEN [Emit(s1, "delete", ip, 0) EXCEPT !.listenerKeys = @ \ {ip}]
            ELSE s1
    ) : s \in {st}})

\* The host calls removeStateListener(listenerId, ip, callback).
RemoveStateListener(listenerId, ip, cb) ==
    /\ ip \in AllAddrs
    /\ Task(RemoveStateListenerCall(Cur("RemoveStateListener", ip, cb), listenerId, ip, cb))

(***************************************************************************)
(* AtemSetProgramInput (src/src/actions/atem-set-program-input.ts): the    *)
(* tally action.  Stream Deck shows and hides its instances and sends the  *)
(* settings the user edits; an instance registers a callback with the pool *)
(* under its action id.  updateTallyLight only reads the pool (getState)   *)
(* and paints the key.                                                     *)
(***************************************************************************)
\* atem-set-program-input.ts:21-23 the address an instance without settings.atemIp gets
DefaultIp == "a1"
\* settings.atemIp empty or undefined
NoIp == ""
\* An instance that was never shown.  visible: Stream Deck shows it; atemIp: the
\* settings.atemIp Stream Deck holds for it; pending: onWillAppear waits in
\* `await ev.action.setSettings(settings)` with this settings.atemIp; listener: the entry
\* of the action's own stateListeners map (atem-set-program-input.ts:12), 0 for none
NoInstance == [visible |-> FALSE, atemIp |-> NoIp, pending |-> << >>, listener |-> 0]

\* atem-set-program-input.ts:191 a new closure: a function no list and no map holds
NewListeners(st) ==
    Val({(
        {cb \in Callbacks :
            /\ \A ip \in AllAddrs : FindIndex(s.stateListeners[ip], cb) = 0
            /\ \A a \in ListenerIds : s.instances[a].listener # cb}
    ) : s \in {st}})

\* atem-set-program-input.ts:206-212 unregisterStateListener(actionId, settings)
UnregisterStateListener(st, actionId, atemIp) ==
    Val({(
        LET listener == s.instances[actionId].listener
        IN  IF listener # 0 /\ atemIp # NoIp
            THEN [RemoveStateListenerCall(s, actionId, atemIp, listener) EXCEPT
                     !.instances[actionId].listener = 0]
            ELSE s
    ) : s \in {st}})

\* atem-set-program-input.ts:181-201 registerStateListener(actionId, settings)
RegisterStateListener(st, actionId, atemIp) ==
    Val({(
        LET s1 == UnregisterStateListener(s, actionId, atemIp)
            new == NewListeners(s1)
            listener == CHOOSE cb \in new : \A d \in new : cb <= d
        IN  IF atemIp = NoIp THEN s
            ELSE IF new = {} THEN [s EXCEPT !.ovf = TRUE]
            ELSE AddStateListenerCall([s1 EXCEPT !.instances[actionId].listener = listener],
                                      actionId, atemIp, listener)
    ) : s \in {st}})

\* atem-set-program-input.ts:17-31 Stream Deck shows instance a: onWillAppear up to its
\* await, with the settings Stream Deck holds for the instance
OnWillAppear(a) ==
    /\ ~instances[a].visible
    /\ instances[a].pending = << >>
    /\ LET ip == IF instances[a].atemIp = NoIp THEN DefaultIp ELSE instances[a].atemIp
       IN  Task([Cur("OnWillAppear", ip, 0) EXCEPT
                    !.instances[a] = [@ EXCEPT !.visible = TRUE, !.atemIp = ip,
                                               !.pending = << ip >>]])

\* atem-set-program-input.ts:33-37 onWillAppear after its await
OnWillAppearResume(a) ==
    /\ instances[a].pending # << >>
    /\ LET ip == instances[a].pending[1]
       IN  Task(RegisterStateListener([Cur("OnWillAppearResume", ip, 0) EXCEPT
                                          !.instances[a].pending = << >>], a, ip))

\* atem-set-program-input.ts:51-60 the user edited the settings of the visible instance a
OnDidReceiveSettings(a, ip) ==
    /\ instances[a].visible
    /\ Task(RegisterStateListener([Cur("OnDidReceiveSettings", ip, 0) EXCEPT
                                      !.instances[a].atemIp = ip], a, ip))

\* atem-set-program-input.ts:43-46 Stream Deck hides instance a
OnWillDisappear(a) ==
    /\ instances[a].visible
    /\ LET ip == instances[a].atemIp
       IN  Task(UnregisterStateListener([Cur("OnWillDisappear", ip, 0) EXCEPT
                                            !.instances[a].visible = FALSE], a, ip))

(***************************************************************************)
(* AtemTransitionRate (src/unnamed/part_001): the key that sets the        *)
(* transition rate.  A JavaScript number is kept in tenths, or is NaN; a   *)
(* string is a sequence of characters.                                     *)
(***************************************************************************)
Number(t) == [nan |-> FALSE, tenths |-> t]
NotANumber == [nan |-> TRUE, tenths |-> 0]

Digits == << "0", "1", "2", "3", "4", "5", "6", "7", "8", "9" >>
IsDigit(ch) == \E k \in 1..Len(Digits) : Digits[k] = ch
DigitValue(ch) == (CHOOSE k \in 1..Len(Digits) : Digits[k] = ch) - 1

\* parseInt skips leading white space
RECURSIVE TrimStart(_)
TrimStart(str) ==
    IF str # << >> /\ Head(str) = " " THEN TrimStart(Tail(str)) ELSE str

\* the digits parseInt reads: up to the first character that is no digit
RECURSIVE DigitPrefix(_)
DigitPrefix(str) ==
    IF str # << >> /\ IsDigit(Head(str))
    THEN << Head(str) >> \o DigitPrefix(Tail(str))
    ELSE << >>

RECURSIVE Decimal(_)
Decimal(ds) ==
    IF ds = << >> THEN 0
    ELSE Decimal(SubSeq(ds, 1, Len(ds) - 1)) * 10 + DigitValue(ds[Len(ds)])

\* part_001:51 parseInt(settings.rate, 10): white space, a sign, digits; NaN without a digit
ParseIntOf(str) ==
    LET t == TrimStart(str)
        signed == t # << >> /\ Head(t) \in {"-", "+"}
        ds == DigitPrefix(IF signed THEN Tail(t) ELSE t)
        sign == IF signed /\ Head(t) = "-" THEN -1 ELSE 1
    IN  IF ds = << >> THEN NotANumber ELSE Number(sign * Decimal(ds) * 10)

\* Math.min and Math.max: NaN when an argument is NaN
MathMin(a, b) ==
    IF a.nan \/ b.nan THEN NotANumber ELSE IF a.tenths <= b.tenths THEN a ELSE b
MathMax(a, b) ==
    IF a.nan \/ b.nan THEN NotANumber ELSE IF a.tenths >= b.tenths THEN a ELSE b

\* The values of settings.rate: undefined, a number, a string
Undefined == [type |-> "undefined", num |-> Number(0), str |-> << >>]
NumberRate(t) == [type |-> "number", num |-> Number(t), str |-> << >>]
StringRate(str) == [type |-> "string", num |-> Number(0), str |-> str]
\* the numbers tried, in tenths, and the characters of the strings tried
RateNumbers == {-10, 0, 5, 10, 15, 250, 2495, 2500, 2510}
RateChars == {"0", "2", "5", "-", ".", " ", "x"}
RateSettings ==
    {Undefined}
        \cup {NumberRate(t) : t \in RateNumbers}
        \cup {StringRate(str) : str \in UNION {[1..n -> RateChars] : n \in 0..MaxRateLen}}

\* part_001:50-55 the local `rate` of onKeyDown
ConvertRate(rate) ==
    LET parsed == IF rate.type = "string" THEN ParseIntOf(rate.str)
                  ELSE IF rate.type = "undefined" THEN Number(250)
                  ELSE rate.num
    IN  MathMax(Number(10), MathMin(Number(2500), parsed))

\* The key press: settings: the settings.rate of its payload; rate: the local `rate`;
\* call: the getConnection call onKeyDown waits for (0: none); passed: << r >> once
\* setMixTransitionSettings({ rate: r }, mixEffect) was called; alert: showAlert was called
NoKeyDown ==
    [settings |-> Undefined, rate |-> Number(0), call |-> 0, passed |-> << >>, alert |-> FALSE]

\* part_001:34-60 the user presses the key: onKeyDown up to its await
OnKeyDown(atemIp) ==
    /\ keyDown.call = 0 /\ keyDown.passed = << >> /\ ~keyDown.alert
    /\ IF atemIp = NoIp
       THEN Task([Cur("OnKeyDown", atemIp, 0) EXCEPT !.keyDown.alert = TRUE])
       ELSE \E i \in Calls :
               /\ call[i].pc = "idle"
               /\ \A j \in Calls : j < i => call[j].pc # "idle"
               /\ Task(GetConnectionCall(
                          [Cur("OnKeyDown", atemIp, i) EXCEPT
                              !.keyDown = [@ EXCEPT !.call = i,
                                                    !.rate = ConvertRate(keyDown.settings)]],
                          atemIp, i))

\* The host removes a callback that is registered for the address (removing one that is
\* not changes nothing, part_000:361-369).
RemoveRegistered(listenerId, ip, cb) ==
    /\ FindIndex(stateListeners[ip], cb) # 0
    /\ RemoveStateListener(listenerId, ip, cb)

\* A delivery without try/catch: the first callback that throws ends it
RECURSIVE DeliverUnguarded(_, _, _, _)
DeliverUnguarded(st, ip, ls, throwers) ==
    Val({(
        IF ls = << >> THEN s
        ELSE LET s1 == Emit(s, "callback", ip, Head(ls))
             IN  IF Head(ls) \in throwers THEN Emit(s1, "uncaught", ip, Head(ls))
                 ELSE DeliverUnguarded(s1, ip, Tail(ls), throwers)
    ) : s \in {st}})

\* part_000:197-204 listeners.forEach: each callback is called with (ip, state); what it
\* throws is caught and logged.  The callbacks in `throwers` throw.
RECURSIVE Deliver(_, _, _, _)
Deliver(st, ip, ls, throwers) ==
    Val({(
        IF ls = << >> THEN s
        ELSE LET s1 == Emit(s, "callback", ip, Head(ls))
                 s2 == IF Head(ls) \in throwers THEN Emit(s1, "caught", ip, Head(ls)) ELSE s1
             IN  Deliver(s2, ip, Tail(ls), throwers)
    ) : s \in {st}})

\* A handler that notifies the callbacks registered for any address
OnStateChangedNotifiesAll(st, ip, throwers) ==
    Val({(
        LET RECURSIVE All(_)
            All(ips) == IF ips = {} THEN << >>
                        ELSE LET a == CHOOSE x \in ips : TRUE
                             IN  s.stateListeners[a] \o All(ips \ {a})
        IN  Deliver(Emit(s, "stateChanged", ip, 0), ip, All(AllAddrs), throwers)
    ) : s \in {st}})

\* part_000:192-206 atem.on("stateChanged")
OnStateChanged(st, ip, throwers) ==
    Val({(
        LET s1 == Emit(s, "stateChanged", ip, 0)
        IN  IF ip \in s.listenerKeys THEN Deliver(s1, ip, s.stateListeners[ip], throwers)
            ELSE s1
    ) : s \in {st}})

\* The driver of connection object c emits 'stateChanged'; any of the callbacks that are
\* called may throw.
DriverStateChanged(c) ==
    /\ conn[c].used
    /\ \E throwers \in SUBSET {cb \in Callbacks : FindIndex(stateListeners[conn[c].ip], cb) # 0} :
          Task(OnStateChanged(Cur("DriverStateChanged", conn[c].ip, c), conn[c].ip, throwers))

(***************************************************************************)
(* The query methods.  What the driver holds in atem.state is the driver's *)
(* business: a query reads whatever is there at the time.                  *)
(***************************************************************************)
\* state.info.capabilities: undefined, or a record with mixEffects
Capabilities ==
    {[defined |-> FALSE, mixEffects |-> 0]}
        \cup {[defined |-> TRUE, mixEffects |-> m] : m \in 1..MaxMixEffects}

\* parseInt(key, 10) of the keys below; NaN for a key that starts with no digit
NaN == -1
ParseInt(key) ==
    CASE key = "1" -> 1
      [] key = "2" -> 2
      [] key = "10" -> 10
      [] OTHER -> NaN

\* Entries of state.inputs: the key, whether the value is an object with a longName
\* property, and its names ("" for an empty or missing name)
Camera == [key |-> "2", labelled |-> TRUE, longName |-> "Camera 2", shortName |-> "CAM2"]
MediaPlayer == [key |-> "10", labelled |-> TRUE, longName |-> "", shortName |-> "MP1"]
Unnamed == [key |-> "1", labelled |-> TRUE, longName |-> "", shortName |-> ""]
Unlabelled == [key |-> "2", labelled |-> FALSE, longName |-> "", shortName |-> "BLK"]
Stray == [key |-> "x", labelled |-> TRUE, longName |-> "Stray", shortName |-> ""]

\* Object.entries(state.inputs), for some devices
InputTables ==
    {<< >>, << MediaPlayer, Camera, Unnamed >>, << Stray, Unlabelled >>}

\* atem.state: undefined, or a state with info.capabilities and inputs
DriverStates ==
    {[defined |-> FALSE, capabilities |-> [defined |-> FALSE, mixEffects |-> 0],
      inputs |-> << >>]}
        \cup {[defined |-> TRUE, capabilities |-> cap, inputs |-> inp] :
                 cap \in Capabilities, inp \in InputTables}

\* part_000:303, 324, 383 !connection || !connection.isConnected
NotConnected(ip) == connections[ip] = NULL \/ ~conn[connections[ip]].isConnected

\* A getConnectedIPs that lists every address of the map
GetConnectedIPsListsAll(keys) == keys

\* part_000:283-294 getConnectedIPs: connections.forEach in the order `keys`, pushing the
\* address of each connected entry
RECURSIVE GetConnectedIPsList(_)
GetConnectedIPsList(keys) ==
    IF keys = << >> THEN << >>
    ELSE (IF conn[connections[Head(keys)]].isConnected THEN << Head(keys) >> ELSE << >>)
             \o GetConnectedIPsList(Tail(keys))

\* A getMixEffectCount that does not look at isConnected
GetMixEffectCountUnguarded(ip, state) ==
    IF connections[ip] = NULL \/ ~state.defined THEN 0
    ELSE IF state.capabilities.defined THEN state.capabilities.mixEffects ELSE 0

\* part_000:301-316 getMixEffectCount
GetMixEffectCount(ip, state) ==
    IF NotConnected(ip) THEN 0
    ELSE IF ~state.defined THEN 0
    ELSE IF state.capabilities.defined THEN state.capabilities.mixEffects ELSE 0

\* part_000:323-329 getState
GetState(ip, state) ==
    IF NotConnected(ip) \/ ~state.defined THEN [null |-> TRUE]
    ELSE [null |-> FALSE, state |-> state]

\* part_000:399 sources.sort((a, b) => a.id - b.id): a stable sort by id
RECURSIVE SortById(_)
SortById(sources) ==
    IF sources = << >> THEN << >>
    ELSE LET least == CHOOSE k \in 1..Len(sources) :
                          /\ \A j \in 1..Len(sources) : sources[k].id <= sources[j].id
                          /\ \A j \in 1..(k - 1) : sources[j].id # sources[k].id
         IN  << sources[least] >>
                 \o SortById(SubSeq(sources, 1, least - 1)
                                 \o SubSeq(sources, least + 1, Len(sources)))

\* part_000:388-397 the loop over Object.entries(inputs)
RECURSIVE Sources(_)
Sources(entries) ==
    IF entries = << >> THEN << >>
    ELSE LET e == Head(entries)
             inputId == ParseInt(e.key)
             name == IF e.longName # "" THEN e.longName
                     ELSE IF e.shortName # "" THEN e.shortName
                     ELSE "Input " \o ToString(inputId)
         IN  (IF inputId # NaN /\ e.labelled THEN << [id |-> inputId, name |-> name] >>
              ELSE << >>) \o Sources(Tail(entries))

\* part_000:382-405 getInputSources
GetInputSources(ip, state) ==
    IF NotConnected(ip) \/ ~state.defined THEN << >>
    ELSE SortById(Sources(state.inputs))

\* The host calls a query method; the value it returns is kept in `returned`.
Query(name, ip, value) ==
    Task([Cur(name, ip, 0) EXCEPT !.returned = << value >>])

IsConnectedQuery(ip) ==
    /\ ip \in AllAddrs
    /\ Query("IsConnected", ip, IsConnected(ip))

GetConnectedIPsQuery ==
    \E keys \in KeyOrders : Query("GetConnectedIPs", "*", GetConnectedIPsList(keys))

GetMixEffectCountQuery(ip) ==
    /\ ip \in AllAddrs
    /\ \E state \in DriverStates : Query("GetMixEffectCount", ip, GetMixEffectCount(ip, state))

GetStateQuery(ip) ==
    /\ ip \in AllAddrs
    /\ \E state \in DriverStates : Query("GetState", ip, GetState(ip, state))

GetInputSourcesQuery(ip) ==
    /\ ip \in AllAddrs
    /\ \E state \in DriverStates : Query("GetInputSources", ip, GetInputSources(ip, state))

Init ==
    /\ connections = [ip \in AllAddrs |-> NULL]
    /\ conn = [c \in Conns |-> NoConn]
    /\ loop = [l \in Loops |-> FreeLoop]
    /\ call = [i \in Calls |-> NoCall]
    /\ emitted = << >>
    /\ hist = [ip \in AllAddrs |-> NoHist]
    /\ stateListeners = [ip \in AllAddrs |-> << >>]
    /\ listenerKeys = {}
    /\ registeredAs = [ip \in AllAddrs |-> << >>]
    /\ returned = << >>
    /\ instances = [a \in ListenerIds |-> NoInstance]
    /\ keyDown = NoKeyDown
    /\ counting = FALSE
    /\ unsolicited = 0

Next ==
    \/ \E ip \in Addrs : GetConnection(ip)
    \/ \E ip \in Addrs : Disconnect(ip)
    \/ \E l \in Loops : Timeout(l)
    \/ \E l \in Loops : DelayElapsed(l)
    \/ \E c \in Conns : CooldownElapsed(c)
    \/ \E c \in Conns : DriverConnected(c)
    \/ \E c \in Conns : DriverDisconnected(c)
    \/ \E c \in Conns : DriverError(c)

Spec == Init /\ [][Next]_vars

(***************************************************************************)
(* A driver that answers every atem.connect call with 'connected', sooner  *)
(* or later (also after the iteration that made the call timed out), and   *)
(* that drops a connection only while the entry is connected.  Timers that *)
(* are pending expire, and events that are due are delivered.              *)
(***************************************************************************)
DriverAnswers(c) ==
    /\ conn[c].used
    /\ conn[c].owed
    /\ Task(ConnectedEvent(c))

DriverDrops(c) ==
    /\ conn[c].used
    /\ connections[conn[c].ip] = c
    /\ conn[c].isConnected
    /\ DriverDisconnected(c)

\* The driver of c, whose last lifecycle event was 'connected', loses the connection
\* (also a driver that was released meanwhile).
DriverLosesConnection(c) ==
    /\ conn[c].lastEvConnected
    /\ DriverDisconnected(c)

TimerExpires == \E l \in Loops : Timeout(l) \/ DelayElapsed(l)
AnswerDelivered == \E c \in Conns : DriverAnswers(c)

LiveNext ==
    \/ \E ip \in Addrs : GetConnection(ip)
    \/ TimerExpires
    \/ AnswerDelivered
    \/ \E c \in Conns : DriverDrops(c)

LiveSpec ==
    /\ Init
    /\ [][LiveNext]_vars
    /\ WF_vars(TimerExpires)
    /\ WF_vars(AnswerDelivered)

(***************************************************************************)
(* The manager with two addresses and the registered callbacks: the host   *)
(* connects, registers and removes callbacks, and releases addresses; the  *)
(* drivers answer, lose the connections they had and report state changes. *)
(* Each callback belongs to one action, which registers it under its       *)
(* action id.                                                              *)
(***************************************************************************)
PoolNext ==
    \/ \E ip \in AllAddrs : GetConnection(ip)
    \/ \E ip \in AllAddrs : Disconnect(ip)
    \/ DisconnectAll
    \/ \E ip \in AllAddrs : \E cb \in Callbacks : AddStateListener(ActionId(cb), ip, cb)
    \/ \E ip \in AllAddrs : \E cb \in Callbacks : RemoveRegistered(ActionId(cb), ip, cb)
    \/ \E c \in Conns : DriverConnected(c)
    \/ \E c \in Conns : DriverLosesConnection(c)
    \/ \E c \in Conns : DriverStateChanged(c)

PoolSpec == Init /\ [][PoolNext]_vars

(***************************************************************************)
(* The registration of callbacks under any listenerId, with drivers that   *)
(* report state changes while the host waits for its connections.          *)
(***************************************************************************)
ObserverNext ==
    \/ \E id \in ListenerIds : \E ip \in AllAddrs : \E cb \in Callbacks :
          AddStateListener(id, ip, cb)
    \/ \E id \in ListenerIds : \E ip \in AllAddrs : \E cb \in Callbacks :
          RemoveStateListener(id, ip, cb)
    \/ \E ip \in AllAddrs : GetConnection(ip)
    \/ \E c \in Conns : DriverStateChanged(c)

ObserverSpec == Init /\ [][ObserverNext]_vars

(***************************************************************************)
(* The query methods, called at any time while the host connects to and    *)
(* releases two addresses and the drivers answer and drop connections.     *)
(***************************************************************************)
QueryNext ==
    \/ \E ip \in AllAddrs : GetConnection(ip)
    \/ \E ip \in AllAddrs : Disconnect(ip)
    \/ \E c \in Conns : DriverConnected(c)
    \/ \E c \in Conns : DriverDisconnected(c)
    \/ \E ip \in AllAddrs : IsConnectedQuery(ip)
    \/ GetConnectedIPsQuery
    \/ \E ip \in AllAddrs : GetMixEffectCountQuery(ip)
    \/ \E ip \in AllAddrs : GetStateQuery(ip)
    \/ \E ip \in AllAddrs : GetInputSourcesQuery(ip)

QuerySpec == Init /\ [][QueryNext]_vars

(***************************************************************************)
(* One address whose entry is never released, a driver that answers with   *)
(* 'connected' (in time or late) or 'error' and never drops a connection;  *)
(* the atem.connect calls of each connectWithRetry invocation are counted. *)
(***************************************************************************)
AttemptInit ==
    /\ connections = [ip \in AllAddrs |-> NULL]
    /\ conn = [c \in Conns |-> NoConn]
    /\ loop = [l \in Loops |-> FreeLoop]
    /\ call = [i \in Calls |-> NoCall]
    /\ emitted = << >>
    /\ hist = [ip \in AllAddrs |-> NoHist]
    /\ stateListeners = [ip \in AllAddrs |-> << >>]
    /\ listenerKeys = {}
    /\ registeredAs = [ip \in AllAddrs |-> << >>]
    /\ returned = << >>
    /\ instances = [a \in ListenerIds |-> NoInstance]
    /\ keyDown = NoKeyDown
    /\ counting = TRUE
    /\ unsolicited = 0

AttemptNext ==
    \/ \E ip \in Addrs : GetConnection(ip)
    \/ \E l \in Loops : Timeout(l)
    \/ \E l \in Loops : DelayElapsed(l)
    \/ \E c \in Conns : DriverConnected(c)
    \/ \E c \in Conns : DriverError(c)

AttemptSpec == AttemptInit /\ [][AttemptNext]_vars

(***************************************************************************)
(* Two addresses side by side, up to the first retry delay of each attempt: *)
(* the host connects to and releases them and registers and removes one    *)
(* callback; the drivers answer, fail, drop connections and report state   *)
(* changes; connection timeouts expire.                                    *)
(***************************************************************************)
IsolationNext ==
    \/ \E ip \in AllAddrs : GetConnection(ip)
    \/ \E ip \in AllAddrs : Disconnect(ip)
    \/ \E ip \in AllAddrs : AddStateListener(ActionId(1), ip, 1)
    \/ \E ip \in AllAddrs : RemoveRegistered(ActionId(1), ip, 1)
    \/ \E l \in Loops : Timeout(l)
    \/ \E c \in Conns : DriverConnected(c)
    \/ \E c \in Conns : DriverDisconnected(c)
    \/ \E c \in Conns : DriverError(c)
    \/ \E c \in Conns : DriverStateChanged(c)

IsolationSpec == Init /\ [][IsolationNext]_vars

(***************************************************************************)
(* The instances of the tally action, shown, edited and hidden by Stream   *)
(* Deck.                                                                   *)
(***************************************************************************)
TallyNext ==
    \/ \E a \in ListenerIds : OnWillAppear(a)
    \/ \E a \in ListenerIds : OnWillAppearResume(a)
    \/ \E a \in ListenerIds : \E ip \in AllAddrs \cup {NoIp} : OnDidReceiveSettings(a, ip)
    \/ \E a \in ListenerIds : OnWillDisappear(a)

TallySpec == Init /\ [][TallyNext]_vars

(***************************************************************************)
(* One press of the transition rate key, for each value of settings.rate,  *)
(* with a driver that answers or not.                                      *)
(***************************************************************************)
RateInit ==
    /\ connections = [ip \in AllAddrs |-> NULL]
    /\ conn = [c \in Conns |-> NoConn]
    /\ loop = [l \in Loops |-> FreeLoop]
    /\ call = [i \in Calls |-> NoCall]
    /\ emitted = << >>
    /\ hist = [ip \in AllAddrs |-> NoHist]
    /\ stateListeners = [ip \in AllAddrs |-> << >>]
    /\ listenerKeys = {}
    /\ registeredAs = [ip \in AllAddrs |-> << >>]
    /\ returned = << >>
    /\ instances = [a \in ListenerIds |-> NoInstance]
    /\ keyDown \in {[NoKeyDown EXCEPT !.settings = rate] : rate \in RateSettings}
    /\ counting = FALSE
    /\ unsolicited = 0

RateNext ==
    \/ \E atemIp \in {DefaultIp, NoIp} : OnKeyDown(atemIp)
    \/ \E l \in Loops : Timeout(l)
    \/ \E l \in Loops : DelayElapsed(l)
    \/ \E c \in Conns : DriverConnected(c)

RateSpec == RateInit /\ [][RateNext]_vars

(***************************************************************************)
(* Observations used by the statements below.                              *)
(***************************************************************************)
\* The connectWithRetry invocations in flight on connection object c, and for address ip
LoopsOn(c) == {l \in Loops : loop[l].pc # "free" /\ loop[l].c = c}
LoopsFor(ip) == {l \in Loops : loop[l].pc # "free" /\ conn[loop[l].c].ip = ip}
ObjectsFor(ip) == {c \in Conns : conn[c].used /\ conn[c].ip = ip}
CallsFor(ip) == {i \in Calls : call[i].pc # "idle" /\ call[i].ip = ip}

\* The step recorded in e ran task `name` with argument n
Ran(e, name, n) == e # << >> /\ e[1].name = name /\ e[1].n = n
\* How often the step recorded in e emitted (or called) `name` for address ip
Count(e, name, ip) ==
    Cardinality({k \in 2..Len(e) : e[k].name = name /\ e[k].ip = ip})
UpTo(k) == [j \in 1..k |-> j]

\* C1: at most one connectWithRetry loop is in flight for an address at any time.
C1_SingleLoopPerAddress ==
    \A ip \in AllAddrs : Cardinality(LoopsFor(ip)) <= 1

\* C2: as long as no iteration has failed on a never released address whose driver
\* only answers connect calls, however many getConnection calls were issued there is
\* one connection object, at most one loop and exactly one atem.connect call; while
\* the attempt runs every call waits for that one loop, and once the entry is
\* connected every call has returned the driver of the entry.
C2_ConcurrentCallsShareOneAttempt ==
    \A ip \in AllAddrs :
        (hist[ip].clean /\ hist[ip].retryLog = << >> /\ CallsFor(ip) # {}) =>
            LET cur == connections[ip]
            IN  /\ cur # NULL
                /\ ObjectsFor(ip) = {cur}
                /\ hist[ip].connects = 1
                /\ Cardinality(LoopsFor(ip)) <= 1
                /\ \A i \in CallsFor(ip) :
                      IF conn[cur].isConnected
                      THEN call[i].pc = "resolved" /\ call[i].atem = cur
                      ELSE /\ call[i].pc \in {"create", "wait"}
                           /\ LoopsFor(ip) = {call[i].l}

\* Two calls were issued before the first attempt succeeded, and the driver's
\* 'connected' made both return.
C2_Witness ==
    \E ip \in Addrs :
        /\ hist[ip].clean /\ hist[ip].retryLog = << >>
        /\ \E c \in Conns : Ran(emitted, "DriverConnected", c)
        /\ Count(emitted, "return", ip) >= 2
        /\ \A i \in CallsFor(ip) : call[i].pc = "resolved" /\ call[i].atem = connections[ip]

\* C3: once getConnection has returned the driver of the entry, a 'disconnected' event
\* of that driver that finds the entry connected and no loop in flight issues exactly
\* one atem.connect call, and a 'disconnected' or 'error' event of it that arrives
\* while the reconnection loop is in flight issues none.
C3_OneConnectPerReconnection ==
    [][\A c \in Conns :
          (/\ \/ Ran(emitted', "DriverDisconnected", c)
              \/ Ran(emitted', "DriverError", c)
           /\ conn[c].used
           /\ connections[conn[c].ip] = c
           /\ CallsFor(conn[c].ip) # {}
           /\ \A i \in CallsFor(conn[c].ip) : call[i].pc = "resolved" /\ call[i].atem = c) =>
              LET n == Count(emitted', "atem.connect", conn[c].ip)
              IN  /\ (/\ Ran(emitted', "DriverDisconnected", c)
                      /\ conn[c].isConnected
                      /\ LoopsOn(c) = {}
                      /\ conn[c].cooldown = 0) => n = 1
                  /\ (\E l \in LoopsOn(c) : loop[l].owner = RECONNECT) => n = 0
      ]_vars

\* C4: on a never released address whose driver only answers connect calls, a failed
\* getConnection call means maxRetries atem.connect calls, 'retry' events numbered
\* 1..maxRetries in order, one 'connectionFailed' event, and an entry that is not
\* connected and has no loop in flight.
C4_FailsAfterMaxRetries ==
    \A ip \in AllAddrs :
        (hist[ip].clean /\ \E i \in CallsFor(ip) : call[i].pc = "failed") =>
            /\ hist[ip].connects = maxRetries
            /\ hist[ip].retryLog = UpTo(maxRetries)
            /\ hist[ip].nConnFailed = 1
            /\ connections[ip] # NULL
            /\ ~conn[connections[ip]].isConnected
            /\ conn[connections[ip]].connectionPromise \in {NULL, SETTLED}
            /\ LoopsFor(ip) = {}

\* The last iteration has just failed: 'connectionFailed' was emitted and the call threw.
C4_Witness ==
    \E ip \in Addrs :
        /\ hist[ip].clean
        /\ Count(emitted, "connectionFailed", ip) = 1
        /\ Count(emitted, "throw", ip) >= 1
        /\ \E i \in CallsFor(ip) : call[i].pc = "failed"

\* C5: on a never released address whose driver only answers connect calls, a
\* getConnection call that returned means k < maxRetries failed iterations with 'retry'
\* events numbered 1..k in order, k + 1 atem.connect calls, no 'connectionFailed'
\* event, the driver of the entry returned, and retryCount = 0.
C5_SucceedsAfterRetries ==
    \A ip \in AllAddrs :
        (hist[ip].clean /\ \E i \in CallsFor(ip) : call[i].pc = "resolved") =>
            LET k == Len(hist[ip].retryLog)
                cur == connections[ip]
            IN  /\ k < maxRetries
                /\ hist[ip].connects = k + 1
                /\ hist[ip].retryLog = UpTo(k)
                /\ hist[ip].nConnFailed = 0
                /\ cur # NULL
                /\ conn[cur].isConnected
                /\ conn[cur].retryCount = 0
                /\ \A i \in CallsFor(ip) : call[i].pc = "resolved" => call[i].atem = cur

\* The driver failed every connect call but the last one the loop may make, and the
\* 'connected' that answered the last one made the call return.
C5_Witness ==
    \E ip \in Addrs :
        /\ hist[ip].clean
        /\ Len(hist[ip].retryLog) = maxRetries - 1
        /\ \E c \in Conns : Ran(emitted, "DriverConnected", c)
        /\ Count(emitted, "return", ip) >= 1

\* C6: an entry that is connected belongs to a driver whose last lifecycle event was
\* 'connected'.
C6_ConnectedReflectsDriver ==
    \A ip \in AllAddrs :
        (connections[ip] # NULL /\ conn[connections[ip]].isConnected) =>
            conn[connections[ip]].lastEvConnected

\* C7: a timer or an event of a connection object that was released (it is no longer
\* the entry of its address) changes neither the map nor any other connection object
\* nor any loop of another connection object, and starts no loop on one.
C7_ReleasedDriverIsInert ==
    [][\A c \in Conns :
          (/\ conn[c].used
           /\ connections[conn[c].ip] # c
           /\ emitted' # << >>
           /\ emitted'[1].n = c
           /\ emitted'[1].name \in {"DriverConnected", "DriverDisconnected", "DriverError",
                                    "Timeout", "DelayElapsed", "CooldownElapsed"}) =>
              /\ connections' = connections
              /\ \A d \in Conns \ {c} : conn'[d] = conn[d]
              /\ \A l \in Loops : loop'[l].c \notin {0, c} => loop'[l] = loop[l]
              /\ \A l \in Loops : loop[l].c \notin {0, c} => loop'[l] = loop[l]
      ]_vars

\* C8: a getConnection(ip) that is the next task after disconnect(ip) creates a new
\* connection object as the entry, calls atem.connect on it, and waits for the loop
\* started on it (it does not return at once and does not wait for an older loop).
C8_FreshAttemptAfterRelease ==
    [][\A ip \in AllAddrs : \A i \in Calls :
          (Ran(emitted, "Disconnect", 0) /\ emitted[1].ip = ip
           /\ Ran(emitted', "GetConnection", i) /\ emitted'[1].ip = ip) =>
              LET new == connections'[ip]
              IN  /\ new # NULL
                  /\ ~conn[new].used
                  /\ conn'[new].used
                  /\ ~conn'[new].isConnected
                  /\ Count(emitted', "atem.connect", ip) = 1
                  /\ \E k \in 2..Len(emitted') :
                        emitted'[k] = [name |-> "atem.connect", ip |-> ip, n |-> new]
                  /\ call'[i].pc = "create"
                  /\ loop[call'[i].l].pc = "free"
                  /\ loop'[call'[i].l].pc = "race"
                  /\ loop'[call'[i].l].c = new
                  /\ conn'[new].connectionPromise = call'[i].l
      ]_vars

\* A connected entry with a loop still in flight was released and getConnection has
\* just made a second connection object the entry.
C8_Witness ==
    \E ip \in Addrs : \E old \in Conns : \E i \in Calls :
        /\ Ran(emitted, "GetConnection", i)
        /\ conn[old].used /\ conn[old].ip = ip
        /\ conn[old].isConnected
        /\ connections[ip] \notin {NULL, old}
        /\ call[i].pc = "create"
        /\ loop[call[i].l].c = connections[ip]

\* C9: a getConnection(ip) issued while the address has no entry, or an entry that is
\* not connected and has no loop in flight, calls atem.connect.
C9_GetConnectionStartsAttempt ==
    [][\A ip \in AllAddrs : \A i \in Calls :
          (/\ Ran(emitted', "GetConnection", i) /\ emitted'[1].ip = ip
           /\ \/ connections[ip] = NULL
              \/ /\ ~conn[connections[ip]].isConnected
                 /\ LoopsOn(connections[ip]) = {}
                 /\ conn[connections[ip]].cooldown = 0) =>
              Count(emitted', "atem.connect", ip) >= 1
      ]_vars

\* C10: an 'error' event of the driver of a connected entry emits the pool-level
\* 'error', marks the entry not connected, and leaves a reconnection under way (a loop
\* in flight or the cooldown that precedes one).
C10_ErrorStartsReconnection ==
    [][\A c \in Conns :
          (/\ Ran(emitted', "DriverError", c)
           /\ conn[c].used
           /\ connections[conn[c].ip] = c
           /\ conn[c].isConnected) =>
              /\ Count(emitted', "error", conn[c].ip) = 1
              /\ ~conn'[c].isConnected
              /\ LoopsOn(c)' # {} \/ conn'[c].cooldown > 0
      ]_vars

\* C11: once the driver of the entry has emitted 'disconnected' while the entry was
\* connected, and the address is not released, the entry is eventually connected again,
\* given a driver that answers every atem.connect call with 'connected'.
C11_ReconnectsAfterDrop ==
    \A c \in Conns :
        (Ran(emitted, "DriverDisconnected", c) /\ connections[conn[c].ip] = c)
            ~> (connections[conn[c].ip] = c /\ conn[c].isConnected)

\* The driver has just dropped the connection of a connected entry: the entry is not
\* connected and the loop that attemptReconnect started waits for the driver.
C11_Witness ==
    \E c \in Conns :
        /\ Ran(emitted, "DriverDisconnected", c)
        /\ connections[conn[c].ip] = c
        /\ ~conn[c].isConnected
        /\ \E l \in LoopsOn(c) : loop[l].owner = RECONNECT /\ loop[l].pc = "race"

\* The step recorded in e emitted (or called) `name` with argument n for address ip
Has(e, name, ip, n) ==
    \E k \in 2..Len(e) : e[k] = [name |-> name, ip |-> ip, n |-> n]

\* C12: while an address has an entry and is not released, the entry stays the same
\* connection object (hence the same driver), no further object is created for the
\* address, and a call that returns in the step returns the driver of that entry
\* (a call that was suspended on an object released meanwhile is not considered).
C12_DriverReusedWhileEntryExists ==
    [][\A ip \in AllAddrs :
          (/\ connections[ip] # NULL
           /\ ~(Ran(emitted', "Disconnect", 0) /\ emitted'[1].ip = ip)) =>
              /\ connections'[ip] = connections[ip]
              /\ ObjectsFor(ip)' = ObjectsFor(ip)
              /\ \A i \in Calls :
                    (/\ Has(emitted', "return", ip, i)
                     /\ call[i].pc = "idle" \/ call[i].c = connections[ip]) =>
                        call'[i].atem = connections[ip]
      ]_vars

\* The first call returned the driver earlier; the connection was lost and the driver's
\* 'connected' has just made the second call return the same driver of the same object.
C12_Witness ==
    \E ip \in Addrs : \E c \in Conns :
        /\ Ran(emitted, "DriverConnected", c)
        /\ ObjectsFor(ip) = {c} /\ connections[ip] = c
        /\ \A i \in Calls : call[i].pc = "resolved" /\ call[i].atem = c
        /\ Has(emitted, "return", ip, 2)
        /\ ~Has(emitted, "return", ip, 1)

\* C13: getConnection(ip) called while the entry is connected returns the driver of
\* the entry within the call; it calls nothing on the driver, emits nothing, starts no
\* loop and changes neither the map nor any connection object nor the observers.
C13_FastPathChangesNothing ==
    [][\A ip \in AllAddrs : \A i \in Calls :
          (/\ Ran(emitted', "GetConnection", i) /\ emitted'[1].ip = ip
           /\ connections[ip] # NULL
           /\ conn[connections[ip]].isConnected) =>
              /\ emitted' = << emitted'[1], [name |-> "return", ip |-> ip, n |-> i] >>
              /\ call'[i].pc = "resolved"
              /\ call'[i].atem = connections[ip]
              /\ \A j \in Calls \ {i} : call'[j] = call[j]
              /\ connections' = connections
              /\ conn' = conn
              /\ loop' = loop
              /\ hist' = hist
              /\ stateListeners' = stateListeners
      ]_vars

\* A second call found the entry connected and returned at once.
C13_Witness ==
    \E ip \in Addrs : \E i \in Calls :
        /\ Ran(emitted, "GetConnection", i)
        /\ emitted = << emitted[1], [name |-> "return", ip |-> ip, n |-> i] >>
        /\ \E j \in Calls \ {i} : call[j].pc = "resolved"
        /\ call[i].atem = connections[ip]

\* C14 as stated: a call that waited for the loop in progress returns the driver
\* without a further atem.connect call if the connection object is connected when the
\* loop ends, and otherwise is suspended on a new loop that called atem.connect.
C14_WaiterReturnsOrStartsAttempt ==
    [][\A i \in Calls :
          (call[i].pc = "wait" /\ call'[i].pc # "wait") =>
              LET c == call[i].c
                  ip == call[i].ip
              IN  IF conn'[c].isConnected
                  THEN /\ call'[i].pc = "resolved" /\ call'[i].atem = c
                       /\ Count(emitted', "atem.connect", ip) = 0
                  ELSE /\ call'[i].pc = "create"
                       /\ Count(emitted', "atem.connect", ip) >= 1
      ]_vars

\* C14 amended: a call that waited for the loop in progress fails if the loop's
\* promise is rejected; if it resolves and the connection object is connected, the call
\* returns its driver without a further atem.connect call; if it resolves and the object
\* is not connected, the call goes on to createConnection: it is suspended on a new loop
\* of the entry that called atem.connect, or, the entry's retryCount having reached
\* maxRetries, it fails without any atem.connect call.
C14_WaiterFollowsAttempt ==
    [][\A i \in Calls :
          (call[i].pc = "wait" /\ call'[i].pc # "wait") =>
              LET c == call[i].c
                  ip == call[i].ip
                  cur == connections'[ip]
              IN  IF Has(emitted', "rejected", ip, call[i].l)
                  THEN /\ call'[i].pc = "failed"
                       /\ Has(emitted', "throw", ip, i)
                  ELSE /\ Has(emitted', "resolved", ip, call[i].l)
                       /\ IF conn'[c].isConnected
                          THEN /\ call'[i].pc = "resolved" /\ call'[i].atem = c
                               /\ Count(emitted', "atem.connect", ip) = 0
                          ELSE /\ cur # NULL
                               /\ \/ /\ call'[i].pc = "create"
                                     /\ loop'[call'[i].l].c = cur
                                     /\ Has(emitted', "atem.connect", ip, cur)
                                  \/ /\ call'[i].pc = "failed"
                                     /\ conn'[cur].retryCount >= maxRetries
                                     /\ Count(emitted', "atem.connect", ip) = 0
      ]_vars

\* The loop a call had joined was rejected after its last iteration, and the call that
\* joined failed with the call that started the loop.
C14_Witness ==
    \E ip \in Addrs : \E l \in Loops :
        /\ Has(emitted, "rejected", ip, l)
        /\ Has(emitted, "connectionFailed", ip, 0)
        /\ Has(emitted, "throw", ip, 1)
        /\ Has(emitted, "throw", ip, 2)
        /\ call[2].pc = "failed"

\* C15: when the promise of a loop started by a getConnection call is rejected because
\* retryCount reached maxRetries, or resolves because the loop of an object that is
\* still the entry of its address found retryCount at maxRetries, every call suspended
\* on it (the one that started it and those that joined) fails in that step and none
\* returns a driver.
C15_ExhaustionFailsEveryWaiter ==
    [][\A l \in Loops :
          (/\ loop[l].pc # "free"
           /\ loop[l].owner # RECONNECT
           /\ LET ip == conn[loop[l].c].ip
              IN  \/ Has(emitted', "rejected", ip, l)
                  \/ /\ Has(emitted', "resolved", ip, l)
                     /\ emitted'[1].name = "DelayElapsed"
                     /\ connections[ip] = loop[l].c) =>
              \A i \in Calls :
                  (call[i].pc \in {"create", "wait"} /\ call[i].l = l) =>
                      /\ call'[i].pc = "failed"
                      /\ Has(emitted', "throw", call[i].ip, i)
                      /\ ~Has(emitted', "return", call[i].ip, i)
      ]_vars

\* A timeout ended the last iteration of a loop on which two calls were suspended, and
\* both threw.
C15_Witness ==
    \E ip \in Addrs : \E c \in Conns :
        /\ Ran(emitted, "Timeout", c)
        /\ Count(emitted, "rejected", ip) = 1
        /\ Count(emitted, "throw", ip) = 2
        /\ \A i \in Calls : call[i].pc = "failed"

\* The loops of attemptReconnect whose promise is rejected in the step e' of a state
RejectedReconnects(ip) ==
    {l \in Loops : /\ loop[l].pc # "free"
                   /\ loop[l].owner = RECONNECT
                   /\ conn[loop[l].c].ip = ip
                   /\ Has(emitted', "rejected", ip, l)}

\* C16 as stated: when the promise of a loop started by attemptReconnect is rejected,
\* 'reconnectFailed' is emitted once and no getConnection call fails.
C16_ReconnectFailureReachesNoCaller ==
    [][\A ip \in AllAddrs :
          RejectedReconnects(ip) # {} =>
              /\ Count(emitted', "reconnectFailed", ip) = Cardinality(RejectedReconnects(ip))
              /\ Count(emitted', "throw", ip) = 0
              /\ \A i \in Calls : call'[i].pc = "failed" => call[i].pc = "failed"
      ]_vars

\* C16 amended: when the promise of a loop started by attemptReconnect is rejected,
\* 'reconnectFailed' is emitted once for it, and the only getConnection calls that fail
\* in that step are those that had joined a loop rejected in it; every other call is
\* left as it was.
C16_ReconnectFailureReachesOnlyJoiners ==
    [][\A ip \in AllAddrs :
          RejectedReconnects(ip) # {} =>
              /\ Count(emitted', "reconnectFailed", ip) = Cardinality(RejectedReconnects(ip))
              /\ \A i \in Calls :
                    IF call[i].pc \in {"create", "wait"}
                       /\ Has(emitted', "rejected", call[i].ip, call[i].l)
                    THEN call'[i].pc = "failed"
                    ELSE call'[i] = call[i]
      ]_vars

\* The reconnection that followed a lost connection used up its retries:
\* 'reconnectFailed' was emitted, and the call that had joined it threw.
C16_Witness ==
    \E ip \in Addrs :
        /\ Count(emitted, "reconnectFailed", ip) = 1
        /\ Count(emitted, "throw", ip) = 1
        /\ call[1].pc = "resolved"
        /\ call[2].pc = "failed"

\* The callbacks the step recorded in e invoked with address ip, in order
Invoked(e, ip) ==
    LET calls == SelectSeq(e, LAMBDA x : x.name = "callback" /\ x.ip = ip)
    IN  [k \in 1..Len(calls) |-> calls[k].n]

\* The callbacks the step recorded in e invoked at all
InvokedAny(e) == {k \in 2..Len(e) : e[k].name = "callback"}

\* C17: disconnect(ip) on an address with an entry clears connectionPromise of the
\* entry's object and changes nothing else in it, calls atem.disconnect on it exactly
\* when it is connected, and deletes the entry, so that isConnected(ip) is false and
\* getConnectedIPs() lacks ip; the callbacks registered (for any address), the entries of
\* the other addresses and the other connection objects stay as they were.  On an
\* address without entry it changes nothing and calls nothing.
C17_DisconnectReleasesOnlyItsAddress ==
    [][\A ip \in AllAddrs :
          (Ran(emitted', "Disconnect", 0) /\ emitted'[1].ip = ip) =>
              LET c == connections[ip]
              IN  /\ stateListeners' = stateListeners
                  /\ \A other \in AllAddrs \ {ip} : connections'[other] = connections[other]
                  /\ loop' = loop
                  /\ call' = call
                  /\ IF c = NULL
                     THEN /\ connections' = connections
                          /\ conn' = conn
                          /\ Len(emitted') = 1
                     ELSE /\ conn' = [conn EXCEPT ![c].connectionPromise = NULL]
                          /\ emitted' = << emitted'[1] >> \o
                                (IF conn[c].isConnected
                                 THEN << [name |-> "atem.disconnect", ip |-> ip, n |-> c] >>
                                 ELSE << >>)
                          /\ connections'[ip] = NULL
                          /\ ~IsConnected(ip)'
                          /\ ip \notin GetConnectedIPs'
      ]_vars

\* disconnect("a1") has just released a connected entry: atem.disconnect was called,
\* the callbacks registered for a1 are still there, and a2 is still connected.
C17_Witness ==
    /\ Ran(emitted, "Disconnect", 0) /\ emitted[1].ip = "a1"
    /\ \E c \in Conns : Has(emitted, "atem.disconnect", "a1", c)
    /\ connections["a1"] = NULL
    /\ stateListeners["a1"] # << >>
    /\ IsConnected("a2")

\* C18: after disconnectAll() no address has an entry, atem.disconnect was called once
\* on the object of each entry that was connected and on no other object, and
\* getConnectedIPs() is empty.
C18_DisconnectAllReleasesEverything ==
    [][Ran(emitted', "DisconnectAll", 0) =>
          /\ \A ip \in AllAddrs : connections'[ip] = NULL
          /\ \A c \in Conns :
                Cardinality({k \in 2..Len(emitted') :
                                emitted'[k].name = "atem.disconnect" /\ emitted'[k].n = c})
                    = IF conn[c].used /\ connections[conn[c].ip] = c /\ conn[c].isConnected
                      THEN 1 ELSE 0
          /\ GetConnectedIPs' = {}
      ]_vars

\* disconnectAll() has just released two addresses, one connected and one with its
\* attempt still waiting for the driver: atem.disconnect was called on the first only.
C18_Witness ==
    /\ Ran(emitted, "DisconnectAll", 0)
    /\ \E c, d \in Conns :
          /\ c # d /\ conn[c].used /\ conn[d].used /\ conn[c].ip # conn[d].ip
          /\ Has(emitted, "atem.disconnect", conn[c].ip, c)
          /\ Len(emitted) = 2
          /\ ~conn[d].isConnected /\ Racing(d) # {}
          /\ \A i \in Calls : call[i].pc \in {"resolved", "create"}

\* C19: when the driver of an object of address ip emits 'stateChanged', the callbacks
\* registered for ip are invoked with ip, once each, in the order of the list, and
\* nothing else is invoked; removeStateListener(_, ip, cb) removes cb from the list of
\* ip and leaves the other callbacks of ip, in their order, and the other lists.
C19_RegisteredCallbacksAreNotified ==
    [][/\ \A c \in Conns :
             Ran(emitted', "DriverStateChanged", c) =>
                 /\ Invoked(emitted', conn[c].ip) = stateListeners[conn[c].ip]
                 /\ Cardinality(InvokedAny(emitted')) = Len(stateListeners[conn[c].ip])
                 /\ Count(emitted', "stateChanged", conn[c].ip) = 1
       /\ \A ip \in AllAddrs : \A cb \in Callbacks :
             (Ran(emitted', "RemoveStateListener", cb) /\ emitted'[1].ip = ip) =>
                 /\ stateListeners'[ip] = Without(stateListeners[ip], cb)
                 /\ \A other \in AllAddrs \ {ip} :
                       stateListeners'[other] = stateListeners[other]
      ]_vars

\* A driver of a1 has just emitted 'stateChanged': callback 1, registered for a1, was
\* invoked; callback 2, registered for a2 only, was not.
C19_Witness ==
    \E c \in Conns :
        /\ Ran(emitted, "DriverStateChanged", c) /\ conn[c].ip = "a1"
        /\ stateListeners["a1"] = << 1 >>
        /\ stateListeners["a2"] = << 2 >>
        /\ Invoked(emitted, "a1") = << 1 >>
        /\ IsConnected("a1")

\* C20: when a callback throws during the delivery of 'stateChanged', the exception is
\* caught: every callback registered for the address is still invoked, once, the
\* handler ends normally, and the map, the connection objects, the loops, the calls and
\* the registered callbacks are unchanged.
C20_ThrowingCallbackIsIsolated ==
    [][\A c \in Conns :
          (/\ Ran(emitted', "DriverStateChanged", c)
           /\ \E k \in 2..Len(emitted') : emitted'[k].name \in {"caught", "uncaught"}) =>
              /\ Invoked(emitted', conn[c].ip) = stateListeners[conn[c].ip]
              /\ Count(emitted', "uncaught", conn[c].ip) = 0
              /\ connections' = connections
              /\ conn' = conn
              /\ loop' = loop
              /\ call' = call
              /\ stateListeners' = stateListeners
      ]_vars

\* Of two callbacks registered for the address, the first threw and the second was
\* invoked after it, while the entry was waiting for its driver to answer.
C20_Witness ==
    \E c \in Conns :
        /\ Ran(emitted, "DriverStateChanged", c)
        /\ SelectSeq(emitted, LAMBDA x : x.name \in {"callback", "caught"}) =
              << [name |-> "callback", ip |-> conn[c].ip, n |-> 1],
                 [name |-> "caught", ip |-> conn[c].ip, n |-> 1],
                 [name |-> "callback", ip |-> conn[c].ip, n |-> 2] >>
        /\ connections[conn[c].ip] = c
        /\ Racing(c) # {}

\* C21: no list of stateListeners holds a callback twice, and the Map holds a list for
\* an address exactly when callbacks are registered for it (never an empty list).
C21_NoDuplicateNoEmptyList ==
    \A ip \in AllAddrs :
        /\ \A j, k \in 1..Len(stateListeners[ip]) :
              stateListeners[ip][j] = stateListeners[ip][k] => j = k
        /\ ip \in listenerKeys <=> stateListeners[ip] # << >>

\* addStateListener has just been called with a callback that was registered already,
\* next to another one: the earlier registration was spliced out and one remains.
C21_Witness ==
    \E ip \in AllAddrs : \E cb \in Callbacks :
        /\ Ran(emitted, "AddStateListener", cb) /\ emitted[1].ip = ip
        /\ Has(emitted, "splice", ip, cb)
        /\ Len(stateListeners[ip]) = 2
        /\ Cardinality({k \in 1..2 : stateListeners[ip][k] = cb}) = 1

\* C22: no list of stateListeners holds two callbacks registered with the same
\* listenerId.
C22_OneRegistrationPerListenerId ==
    \A ip \in AllAddrs :
        \A j, k \in 1..Len(registeredAs[ip]) :
            registeredAs[ip][j] = registeredAs[ip][k] => j = k

\* The query methods
Queries == {"IsConnected", "GetConnectedIPs", "GetMixEffectCount", "GetState", "GetInputSources"}

\* C23: a call of isConnected, getConnectedIPs, getState, getMixEffectCount or
\* getInputSources returns a value and leaves the map, the connection objects, the
\* loops, the calls and the registered callbacks as they were; it calls nothing on a
\* driver and emits nothing.  For an address without entry, or with an entry that is not
\* connected, isConnected returns false, getState null, getMixEffectCount 0 and
\* getInputSources the empty list, whatever the driver holds in atem.state.
C23_QueriesReadOnly ==
    [][(emitted' # << >> /\ emitted'[1].name \in Queries) =>
          /\ Len(emitted') = 1
          /\ Len(returned') = 1
          /\ connections' = connections
          /\ conn' = conn
          /\ loop' = loop
          /\ call' = call
          /\ stateListeners' = stateListeners
          /\ listenerKeys' = listenerKeys
          /\ \A ip \in AllAddrs :
                (emitted'[1].ip = ip /\ NotConnected(ip)) =>
                    CASE emitted'[1].name = "IsConnected" -> returned' = << FALSE >>
                      [] emitted'[1].name = "GetState" -> returned' = << [null |-> TRUE] >>
                      [] emitted'[1].name = "GetMixEffectCount" -> returned' = << 0 >>
                      [] emitted'[1].name = "GetInputSources" -> returned' = << << >> >>
                      [] OTHER -> TRUE
      ]_vars

\* getMixEffectCount("a1") has just returned 0 for an entry that lost its connection,
\* while a2 is connected.
C23_Witness ==
    /\ Ran(emitted, "GetMixEffectCount", 0) /\ emitted[1].ip = "a1"
    /\ returned = << 0 >>
    /\ connections["a1"] # NULL
    /\ ~conn[connections["a1"]].isConnected
    /\ conn[connections["a1"]].retryCount = 0
    /\ Racing(connections["a1"]) # {}
    /\ IsConnected("a2")

\* C24: in whatever order the map lists its entries, getConnectedIPs() returns each
\* address that has a connected entry once and no other address, and isConnected(ip) is
\* true exactly for the addresses it returns.
C24_ConnectedIPsAreTheConnectedEntries ==
    \A keys \in KeyOrders :
        LET ips == GetConnectedIPsList(keys)
        IN  /\ \A j, k \in 1..Len(ips) : ips[j] = ips[k] => j = k
            /\ {ips[k] : k \in 1..Len(ips)} =
                  {ip \in AllAddrs : connections[ip] # NULL /\ conn[connections[ip]].isConnected}
            /\ \A ip \in AllAddrs : IsConnected(ip) <=> \E k \in 1..Len(ips) : ips[k] = ip

\* getConnectedIPs() has just returned a2 alone, a1 having an entry that is not
\* connected.
C24_Witness ==
    /\ Ran(emitted, "GetConnectedIPs", 0)
    /\ returned = << << "a2" >> >>
    /\ connections["a1"] # NULL
    /\ ~IsConnected("a1")

\* C25: no invocation of connectWithRetry makes more than maxRetries atem.connect calls.
C25_AtMostMaxRetriesConnects ==
    \A l \in Loops : loop[l].connects <= maxRetries

\* C29: a 'connected' event of a driver makes the manager emit 'connected' for its
\* address once.
C29_OneConnectedPerDriverEvent ==
    [][\A c \in Conns :
          Ran(emitted', "DriverConnected", c) =>
              Count(emitted', "connected", conn[c].ip) = 1
      ]_vars

\* C30: no once-listener of an iteration that has ended is attached to a driver.
C30_EndedIterationsLeaveNoListener ==
    \A c \in Conns : conn[c].used => conn[c].staleConnected = 0

\* The attempt numbers of the 'retry' events of the step recorded in e, in order
Retries(e) ==
    LET r == SelectSeq(e, LAMBDA x : x.name = "retry")
    IN  [k \in 1..Len(r) |-> r[k].n]

\* The iteration of loop l failed in the step, with retryCount counted up to rc: the
\* loop waits for retryDelay, or, rc having reached maxRetries, 'connectionFailed' was
\* emitted right after 'retry' and the loop ended with its promise rejected.
FailedIteration(l, rc) ==
    LET ip == conn[loop[l].c].ip
    IN  IF rc >= maxRetries
        THEN /\ loop'[l].pc = "free"
             /\ Has(emitted', "rejected", ip, l)
             /\ \E k \in 2..(Len(emitted') - 1) :
                   /\ emitted'[k] = [name |-> "retry", ip |-> ip, n |-> rc]
                   /\ emitted'[k + 1] = [name |-> "connectionFailed", ip |-> ip, n |-> 0]
        ELSE /\ loop'[l] = [loop[l] EXCEPT !.pc = "delay"]
             /\ ~Has(emitted', "rejected", ip, l)

\* C26: a timeout ends the iteration of one loop waiting on the driver, a driver 'error'
\* those of all loops waiting on it; each iteration that ends so adds one to retryCount
\* and emits 'retry' with the new retryCount, and its loop then waits for retryDelay
\* without calling atem.connect, or, at maxRetries, ends with 'connectionFailed' right
\* after that 'retry'.  A loop that goes on calls atem.connect again only when its
\* retryDelay timer expires, once.
C26_FailedIterationCountsRetriesThenWaits ==
    [][/\ \A c \in Conns :
             LET rc == conn[c].retryCount
                 all == Racing(c)
             IN  /\ (Ran(emitted', "Timeout", c) /\ all # {}) =>
                        /\ conn'[c].retryCount = rc + 1
                        /\ Retries(emitted') = << rc + 1 >>
                        /\ \E l \in all :
                              /\ FailedIteration(l, rc + 1)
                              /\ \A j \in all \ {l} : loop'[j] = loop[j]
                 /\ (Ran(emitted', "DriverError", c) /\ all # {}) =>
                        /\ conn'[c].retryCount = rc + Cardinality(all)
                        /\ Retries(emitted') = [k \in 1..Cardinality(all) |-> rc + k]
                        /\ \A l \in all :
                              FailedIteration(l, rc + Cardinality({j \in all : j <= l}))
       /\ \A l \in Loops :
             (/\ loop[l].pc \notin {"free", "race"} /\ loop'[l].pc = "race"
              /\ ~Has(emitted', "resolved", conn[loop[l].c].ip, l)
              /\ ~Has(emitted', "rejected", conn[loop[l].c].ip, l)) =>
                 /\ loop[l].pc = "delay"
                 /\ loop'[l] = [loop[l] EXCEPT !.pc = "race"]
                 /\ Ran(emitted', "DelayElapsed", loop[l].c)
                 /\ Count(emitted', "atem.connect", conn[loop[l].c].ip) = 1
                 /\ Count(emitted', "retry", conn[loop[l].c].ip) = 0
      ]_vars

\* A driver 'error' has just ended the second iteration of the only loop: 'retry' 2 was
\* emitted and the loop waits for its retryDelay.
C26_Witness ==
    \E c \in Conns : \E l \in Loops :
        /\ Ran(emitted, "DriverError", c)
        /\ Retries(emitted) = << 2 >>
        /\ conn[c].retryCount = 2
        /\ LoopsOn(c) = {l}
        /\ loop[l].pc = "delay"
        /\ hist[conn[c].ip].clean

\* C27: while a cooldown of attemptReconnect is pending for the entry of an address, no
\* step but the expiry of the cooldown calls atem.connect for the address; the expiry
\* resets retryCount to 0 and starts one connectWithRetry loop, which is then the only
\* loop of the entry, no further cooldown being pending.
C27_OneCycleAfterCooldown ==
    [][\A c \in Conns :
          (conn[c].used /\ conn[c].cooldown > 0 /\ connections[conn[c].ip] = c) =>
              IF Ran(emitted', "CooldownElapsed", c)
              THEN /\ Count(emitted', "atem.connect", conn[c].ip) = 1
                   /\ conn'[c].retryCount = 0
                   /\ conn'[c].cooldown = 0
                   /\ Cardinality(LoopsOn(c)') = 1
              ELSE Count(emitted', "atem.connect", conn[c].ip) = 0
      ]_vars

\* C28: after a 'connected' event of a driver whose address has an entry, the entry is
\* connected with retryCount 0 and 'connected' was emitted for the address.  After a
\* 'disconnected' event, the entry is not connected, 'disconnected' was emitted once,
\* before any atem.connect call of the step, and connectionPromise is null or the
\* promise of a loop that attemptReconnect started in the step.
C28_DriverEventsSetTheEntry ==
    [][\A c \in Conns :
          LET ip == conn[c].ip
              cur == connections[ip]
              p == conn'[cur].connectionPromise
          IN  /\ (Ran(emitted', "DriverConnected", c) /\ cur # NULL) =>
                     /\ connections'[ip] = cur
                     /\ conn'[cur].isConnected
                     /\ conn'[cur].retryCount = 0
                     /\ Count(emitted', "connected", ip) >= 1
              /\ (Ran(emitted', "DriverDisconnected", c) /\ cur # NULL) =>
                     /\ connections'[ip] = cur
                     /\ ~conn'[cur].isConnected
                     /\ emitted'[2] = [name |-> "disconnected", ip |-> ip, n |-> 0]
                     /\ Count(emitted', "disconnected", ip) = 1
                     /\ \/ p = NULL
                        \/ /\ p \in Loops
                           /\ loop[p].pc = "free"
                           /\ loop'[p].pc = "race"
                           /\ loop'[p].c = cur
                           /\ loop'[p].owner = RECONNECT
      ]_vars

\* The attempt of the first call had failed with the retries used up; the driver has
\* now emitted 'connected' all the same, and the entry is connected with retryCount 0.
C28_Witness ==
    \E c \in Conns :
        /\ Ran(emitted, "DriverConnected", c)
        /\ connections[conn[c].ip] = c
        /\ call[1].pc = "failed"
        /\ LoopsOn(c) = {}
        /\ conn[c].isConnected
        /\ conn[c].retryCount = 0
        /\ Count(emitted, "connected", conn[c].ip) >= 1

\* C31: the connectionPromise of an entry is set only while a connectWithRetry loop runs
\* on the entry (it is null once the attempt has succeeded, failed or returned).
C31_PromiseOnlyWhileLoopRuns ==
    \A ip \in AllAddrs :
        (connections[ip] # NULL /\ conn[connections[ip]].connectionPromise # NULL) =>
            LoopsOn(connections[ip]) # {}

\* C32: the retryCount of every connection object stays within 0..maxRetries.
C32_RetryCountInRange ==
    \A c \in Conns : conn[c].used => conn[c].retryCount \in 0..maxRetries

\* C33: atem.connect is never called on the driver of an entry that is connected (an
\* entry that is connected before and after the step was connected when the call was
\* made: a step that calls atem.connect never sets isConnected to true).
C33_NoConnectWhileConnected ==
    [][\A c \in Conns :
          (/\ Has(emitted', "atem.connect", conn'[c].ip, c)
           /\ connections[conn'[c].ip] = c
           /\ connections'[conn'[c].ip] = c) =>
              ~(conn[c].isConnected /\ conn'[c].isConnected)
      ]_vars

\* C34: a getConnection call that returns a driver returns the driver of the entry its
\* address has at that moment, and that entry is connected.
C34_ReturnsConnectedEntry ==
    [][\A i \in Calls :
          Has(emitted', "return", call'[i].ip, i) =>
              /\ connections'[call'[i].ip] # NULL
              /\ call'[i].atem = connections'[call'[i].ip]
              /\ conn'[connections'[call'[i].ip]].isConnected
      ]_vars

\* C35: every getConnection call eventually returns a driver or fails, given timers that
\* expire and a driver that answers every atem.connect call.
C35_EveryCallTerminates ==
    \A i \in Calls :
        (call[i].pc \in {"create", "wait"}) ~> (call[i].pc \in {"resolved", "failed"})

\* C36: a getConnection, disconnect, addStateListener or removeStateListener call for an
\* address, a connection timeout of one of its attempts, or an event of a driver created
\* for it, leaves every other address as it was: its entry, its connection objects and
\* their loops, its list of callbacks; and nothing is emitted for or called on the other
\* address (no atem.connect, no atem.disconnect, no callback).
C36_AddressIsolation ==
    [][\A A, B \in AllAddrs :
          (/\ A # B
           /\ emitted' # << >>
           /\ emitted'[1].ip = A) =>
              /\ connections'[B] = connections[B]
              /\ \A c \in Conns :
                    ((conn[c].used /\ conn[c].ip = B) \/ (conn'[c].used /\ conn'[c].ip = B)) =>
                        conn'[c] = conn[c]
              /\ \A l \in Loops :
                    (\/ loop[l].pc # "free" /\ conn[loop[l].c].ip = B
                     \/ loop'[l].pc # "free" /\ conn'[loop'[l].c].ip = B) =>
                        loop'[l] = loop[l]
              /\ stateListeners'[B] = stateListeners[B]
              /\ (B \in listenerKeys') = (B \in listenerKeys)
              /\ \A k \in 2..Len(emitted') : emitted'[k].ip # B
      ]_vars

\* The second address has a connected entry and a registered callback, and the first,
\* connected too, has just been released: atem.disconnect was called on its driver.
C36_Witness ==
    /\ Ran(emitted, "Disconnect", 0)
    /\ emitted[1].ip = "a1"
    /\ Count(emitted, "atem.disconnect", "a1") = 1
    /\ connections["a1"] = NULL
    /\ connections["a2"] # NULL
    /\ conn[connections["a2"]].isConnected
    /\ stateListeners["a2"] # << >>

\* The registrations made under action id a: the positions of the pool's lists that hold
\* a callback registered with listenerId a
RegistrationsOf(a) ==
    {p \in AllAddrs \X (1..MaxCallbacks) :
        p[2] <= Len(registeredAs[p[1]]) /\ registeredAs[p[1]][p[2]] = a}

\* C37: of each instance of the tally action at most one callback is registered with
\* the pool, over all addresses, and none while the instance is not visible.
C37_OneCallbackPerVisibleInstance ==
    \A a \in ListenerIds :
        /\ Cardinality(RegistrationsOf(a)) <= 1
        /\ ~instances[a].visible => RegistrationsOf(a) = {}

\* C38: the rate that onKeyDown passes to setMixTransitionSettings is an integer
\* between 1 and 250, whatever settings.rate is.
C38_PassedRateIsInteger1To250 ==
    keyDown.passed # << >> =>
        LET rate == keyDown.passed[1]
        IN  /\ ~rate.nan
            /\ rate.tenths % 10 = 0
            /\ rate.tenths \in (1 * 10)..(250 * 10)

====
